---- MODULE Spec2Model ----
(***************************************************************************)
(* rpc-ws: JSON-RPC 2.0 over WebSocket.                                    *)
(*                                                                         *)
(* The module models the Node client of lib/client.ts (the call            *)
(* correlator: call_id, events, queue, the per-id emitter listeners, the   *)
(* per-call timeout timers and promises) and the server of lib/server.ts   *)
(* (the namespace registry, handleRPC, subscribe/unsubscribe, notify).     *)
(*                                                                         *)
(* JavaScript values are represented by their printed text: "undefined",   *)
(* "null", "0", "42", "" (the empty string), "pong".  An optional object   *)
(* (an error object) is a sequence of length 0 or 1.  A params value is a  *)
(* record [arr, v]: arr says whether it is an array, v holds its elements  *)
(* (or the single non-array value).                                        *)
(***************************************************************************)
EXTENDS Integers, Sequences, FiniteSets, TLC

VARIABLES
    \* ---- Node client (lib/client.ts) ----
    connected,   \* let connected
    call_id,     \* let call_id
    events,      \* const events : Map<eventName, callback>
    queue,       \* const queue  : Map<id, SocketQueue>
    listeners,   \* ids with a listener installed on the emitter
    timers,      \* id -> "armed" | "cleared" | "fired"   (callTimeout of each _send)
    sendcb,      \* id -> "ok" | "err" | "done"           (ws.send completion callback)
    promise,     \* id -> outcome of the promise _send returned
    cout,        \* request frames written to the transport by the last client step
    clast,       \* the last client step and what it met
    \* ---- server (lib/server.ts) ----
    listening,   \* let listening
    wsListening, \* the WebSocketServer has emitted its own 'listening'
    connHandlers,\* number of 'connection' listeners installed on ws
    namespaces,  \* const namespaces : Map<path, {clients, events, methods}>
    conns,       \* socketId -> [sock, ns]: the closure of each run of the connection handler
    sockState,   \* transport socket -> "idle" | "open" | "closing" | "closed" | "rejected"
    inflight,    \* the suspended `await fn(payload.params, socketId)` of handleRPC
    sent,        \* the socket.send calls of the last server step
    slast,       \* the last server step and its input
    \* ---- the connection between this client and this server ----
    wired,       \* the client is the peer of the server's socket WiredSock
    c2s,         \* request frames on their way to the server
    s2c,         \* frames on their way to the client
    owed         \* emits made while the client held an acknowledged subscription
                 \* that no callback invocation has answered yet

clientVars == <<connected, call_id, events, queue, listeners, timers, sendcb,
                promise, cout, clast>>

serverVars == <<listening, wsListening, connHandlers, namespaces, conns, sockState,
                inflight, sent, slast>>

netVars == <<wired, c2s, s2c, owed>>

vars == <<clientVars, serverVars, netVars>>

-----------------------------------------------------------------------------
(* Bounds *)

MaxCalls == 2
MaxSockets == 2
MaxInflight == 1
MaxChan == 2

-----------------------------------------------------------------------------
(* JavaScript values and the JSON-RPC error codes *)

Undefined == "undefined"

ParseErrorCode == -32700
MethodNotFoundCode == -32601
InvalidParamsCode == -32602
InternalErrorCode == -32603
ApplicationErrorCode == -32000

\* !v
Falsy(v) == v \in {"undefined", "null", "0", "false", "", "NaN"}

EventNames == {"tick", "ping"}
Callbacks == {"cb1", "cb2"}
MethodNames == {"double", "boom"}

NoParams == [arr |-> TRUE, v |-> <<>>]
ArrayOf(s) == [arr |-> TRUE, v |-> s]

\* Array.isArray(payload.params) ? payload.params : [payload.params]
CoerceParams(p) == IF p.arr THEN p.v ELSE <<p.v[1]>>

\* JSON.stringify of a call id, and the number a wire id parses to (0: none of
\* the ids this client can have issued, or a falsy id)
IdText(n) == ToString(n)
IdOf(text) ==
    IF \E n \in 1..(MaxCalls + 2) : IdText(n) = text
    THEN CHOOSE n \in 1..(MaxCalls + 2) : IdText(n) = text
    ELSE 0

-----------------------------------------------------------------------------
(* Node client *)

Pending == [state |-> "pending", result |-> Undefined, error |-> <<>>]

\* new Promise: the first resolve or reject settles it, later ones are ignored
Settle(p, outcome) == IF p.state = "pending" THEN outcome ELSE p

TimeoutRejection ==
    [state |-> "rejected", result |-> Undefined,
     error |-> <<[code |-> ApplicationErrorCode, messsage |-> "Request timed out"]>>]

\* mutant of SendRejection: the code has lost its sign
SendRejectionPositive ==
    [state |-> "rejected", result |-> Undefined,
     error |-> <<[code |-> 32700, message |-> "Parse error"]>>]

SendRejection ==
    [state |-> "rejected", result |-> Undefined,
     error |-> <<[code |-> ParseErrorCode, message |-> "Parse error"]>>]

Resolution(entry) ==
    [state |-> "resolved", result |-> entry.result, error |-> entry.error]

QueueEntry(type) == [type |-> type, result |-> Undefined, error |-> <<>>]

Without(f, k) == [x \in DOMAIN f \ {k} |-> f[x]]

\* a request frame (SocketRequest)
Request(id, method, params) ==
    [k |-> "obj", id |-> id, method |-> method, params |-> params]

\* the payload fields of an inbound frame the message handler reads
NoFrame == [k |-> "none"]
Garbage == [k |-> "garbage"]
Frame(id, result, error, notification, params) ==
    [k |-> "obj", id |-> id, result |-> result, error |-> error,
     notification |-> notification, params |-> params]

\* if (payload.notification && events.has(payload.notification))
IsNotification(f) ==
    /\ ~Falsy(f.notification)
    /\ f.notification \in DOMAIN events

\* mutant of StoreResponse: the payload is stored under the latest call id
StoreResponseLatest(q, id, f) ==
    IF call_id \notin DOMAIN q THEN q
    ELSE IF f.error # <<>>
    THEN [q EXCEPT ![call_id].error = f.error]
    ELSE [q EXCEPT ![call_id].result = f.result]

\* if (payload.error) queue.set(id, {...event, error}) else queue.set(id, {...event, result})
StoreResponse(q, id, f) ==
    IF f.error # <<>>
    THEN [q EXCEPT ![id].error = f.error]
    ELSE [q EXCEPT ![id].result = f.result]

\* mutant of EmitTargets: the event reaches the listeners of every id
EmitTargetsAll(id) == listeners

\* emitter.emit(String(id), ...): the ids whose listener runs
EmitTargets(id) == IF id \in listeners THEN {id} ELSE {}

\* the listener of _send, run for every id in T: clearTimeout(callTimeout)
ListenerTimers(tm, T) ==
    [t \in DOMAIN tm |-> IF t \in T /\ tm[t] = "armed" THEN "cleared" ELSE tm[t]]

\* the listener of _send, run for every id in T: reject on a timeout, else
\* take the queue entry and resolve with its result and error
ListenerPromise(T, isErr, q) ==
    [t \in DOMAIN promise |->
        IF t \notin T THEN promise[t]
        ELSE IF isErr THEN Settle(promise[t], TimeoutRejection)
        ELSE IF t \in DOMAIN q THEN Settle(promise[t], Resolution(q[t]))
        ELSE promise[t]]

\* the listener of _send, run for every id in T: queue.delete(request.id)
ListenerQueue(T, isErr, q) ==
    IF isErr THEN q ELSE [t \in DOMAIN q \ T |-> q[t]]

Step(op, id, settled, entry, cb, args) ==
    [op |-> op, id |-> id, settled |-> settled, entry |-> entry, cb |-> cb,
     args |-> args]

\* _send: arm the timeout, hand the request to the transport
_send(id, method, params, accepted) ==
    /\ timers' = (id :> "armed") @@ timers
    /\ sendcb' = (id :> IF accepted THEN "ok" ELSE "err") @@ sendcb
    /\ promise' = (id :> Pending) @@ promise
    /\ cout' = IF accepted THEN <<Request(IdText(id), method, params)>> ELSE <<>>
    /\ c2s' = IF wired THEN c2s \o cout' ELSE c2s
    /\ UNCHANGED <<connected, listeners, serverVars, wired, s2c, owed>>

\* mutant of ClientSubscribe: the callback is not registered when the request
\* is sent
ClientSubscribeLate(name, cb, accepted) ==
    /\ connected
    /\ call_id < MaxCalls
    /\ call_id' = call_id + 1
    /\ UNCHANGED events
    /\ queue' = (call_id' :> QueueEntry("notification")) @@ queue
    /\ _send(call_id', "rpc.on", ArrayOf(<<name>>), accepted)
    /\ clast' = Step("subscribe", call_id', FALSE, FALSE, cb, <<>>)

\* subscribe(namespace, cb)
ClientSubscribe(name, cb, accepted) ==
    /\ connected
    /\ call_id < MaxCalls
    /\ call_id' = call_id + 1
    /\ events' = (name :> cb) @@ events
    /\ queue' = (call_id' :> QueueEntry("notification")) @@ queue
    /\ _send(call_id', "rpc.on", ArrayOf(<<name>>), accepted)
    /\ clast' = Step("subscribe", call_id', FALSE, FALSE, cb, <<>>)

\* mutant of ClientUnsubscribe: the callback is still registered when rpc.off is
\* sent
ClientUnsubscribeLate(name, accepted) ==
    /\ connected
    /\ call_id < MaxCalls
    /\ call_id' = call_id + 1
    /\ UNCHANGED events
    /\ queue' = (call_id' :> QueueEntry("notification")) @@ queue
    /\ _send(call_id', "rpc.off", ArrayOf(<<name>>), accepted)
    /\ clast' = Step("unsubscribe", call_id', FALSE, FALSE, "none", <<>>)

\* unsubscribe(namespace)
ClientUnsubscribe(name, accepted) ==
    /\ connected
    /\ call_id < MaxCalls
    /\ call_id' = call_id + 1
    /\ events' = Without(events, name)
    /\ queue' = (call_id' :> QueueEntry("notification")) @@ queue
    /\ _send(call_id', "rpc.off", ArrayOf(<<name>>), accepted)
    /\ clast' = Step("unsubscribe", call_id', FALSE, FALSE, "none", <<>>)

\* mutant of ClientSend: the id of the latest call is used again once that call
\* has settled
ClientSendReuse(method, params, accepted) ==
    LET id == IF call_id \in DOMAIN promise /\ promise[call_id].state # "pending"
              THEN call_id ELSE call_id + 1
    IN  /\ connected
        /\ call_id < MaxCalls
        /\ call_id' = id
        /\ queue' = (id :> QueueEntry("request")) @@ queue
        /\ _send(id, method, params, accepted)
        /\ clast' = Step("send", id, FALSE, FALSE, "none", <<>>)
        /\ UNCHANGED events

\* send(method, ...params)
ClientSend(method, params, accepted) ==
    /\ connected
    /\ call_id < MaxCalls
    /\ call_id' = call_id + 1
    /\ queue' = (call_id' :> QueueEntry("request")) @@ queue
    /\ _send(call_id', method, params, accepted)
    /\ clast' = Step("send", call_id', FALSE, FALSE, "none", <<>>)
    /\ UNCHANGED events

\* mutant of SendComplete: a refused write drops the registered callbacks
SendCompleteRollsBack(id) ==
    /\ id \in DOMAIN sendcb
    /\ sendcb[id] \in {"ok", "err"}
    /\ sendcb' = [sendcb EXCEPT ![id] = "done"]
    /\ IF sendcb[id] = "err"
       THEN /\ promise' = [promise EXCEPT ![id] = Settle(@, SendRejection)]
            /\ events' = <<>>
            /\ UNCHANGED listeners
       ELSE /\ listeners' = listeners \cup {id}
            /\ UNCHANGED <<promise, events>>
    /\ cout' = <<>>
    /\ clast' = Step("sendcb", id, promise[id].state # "pending", id \in DOMAIN queue,
                     "none", <<>>)
    /\ UNCHANGED <<connected, call_id, queue, timers, serverVars, netVars>>

\* the completion callback of ws.send
SendComplete(id) ==
    /\ id \in DOMAIN sendcb
    /\ sendcb[id] \in {"ok", "err"}
    /\ sendcb' = [sendcb EXCEPT ![id] = "done"]
    /\ IF sendcb[id] = "err"
       THEN /\ promise' = [promise EXCEPT ![id] = Settle(@, SendRejection)]
            /\ UNCHANGED listeners
       ELSE /\ listeners' = listeners \cup {id}
            /\ UNCHANGED promise
    /\ cout' = <<>>
    /\ clast' = Step("sendcb", id, promise[id].state # "pending", id \in DOMAIN queue,
                     "none", <<>>)
    /\ UNCHANGED <<connected, call_id, events, queue, timers, serverVars, netVars>>

\* the callTimeout callback: emitter.emit(String(request.id), new Error(...))
TimerFire(id) ==
    /\ id \in DOMAIN timers
    /\ timers[id] = "armed"
    /\ LET T == EmitTargets(id) IN
        /\ timers' = ListenerTimers([timers EXCEPT ![id] = "fired"], T)
        /\ promise' = ListenerPromise(T, TRUE, queue)
        /\ queue' = ListenerQueue(T, TRUE, queue)
    /\ cout' = <<>>
    /\ clast' = Step("timeout", id, promise[id].state # "pending", id \in DOMAIN queue,
                     "none", <<>>)
    /\ UNCHANGED <<connected, call_id, events, listeners, sendcb, serverVars, netVars>>

\* ws.on("message", ...)
OnMessage(f) ==
    /\ connected
    /\ cout' = <<>>
    /\ UNCHANGED <<connected, call_id, events, listeners, sendcb, serverVars, wired, c2s>>
    /\ owed' = IF wired /\ f.k # "garbage" /\ IsNotification(f) /\ owed > 0
               THEN owed - 1 ELSE owed
    /\ IF f.k = "garbage"
       THEN \* JSON.parse throws, or reading a field of null throws: caught
            /\ clast' = Step("message", 0, FALSE, FALSE, "none", <<>>)
            /\ UNCHANGED <<queue, timers, promise>>
       ELSE IF IsNotification(f)
       THEN \* cb(params): the invocation is recorded in clast
            /\ clast' = Step("notify", IdOf(f.id), FALSE, IdOf(f.id) \in DOMAIN queue,
                             events[f.notification], CoerceParams(f.params))
            /\ UNCHANGED <<queue, timers, promise>>
       ELSE IF Falsy(f.id) \/ IdOf(f.id) \notin DOMAIN queue
       THEN /\ clast' = Step("message", IdOf(f.id),
                             IdOf(f.id) \in DOMAIN promise
                                 /\ promise[IdOf(f.id)].state # "pending",
                             FALSE, "none", <<>>)
            /\ UNCHANGED <<queue, timers, promise>>
       ELSE LET id == IdOf(f.id)
                q == StoreResponse(queue, id, f)
                T == EmitTargets(id)
            IN  /\ timers' = ListenerTimers(timers, T)
                /\ promise' = ListenerPromise(T, FALSE, q)
                /\ queue' = ListenerQueue(T, FALSE, q)
                /\ clast' = Step("message", id, promise[id].state # "pending", TRUE,
                                 "none", <<>>)

-----------------------------------------------------------------------------
(* The peer of the client: any frame may arrive *)

WireIds == {Undefined} \cup {IdText(n) : n \in 1..(MaxCalls + 1)}
\* The client never reads a result or the fields of an error object, so the
\* peer's payloads are taken to name the id they were sent with: a result or an
\* error that ends up in another call's outcome is then visible.
ResultFor(i) == "result-" \o i
ErrorFor(i) == [code |-> MethodNotFoundCode, message |-> "Method not found", data |-> i]
WireParams == {NoParams, ArrayOf(<<"1">>), [arr |-> FALSE, v |-> <<"1">>]}

ResponseFrames ==
    UNION {{Frame(i, r, e, Undefined, NoParams) :
                r \in {Undefined, ResultFor(i)}, e \in {<<>>, <<ErrorFor(i)>>}} :
           i \in WireIds}
NotificationFrames ==
    {Frame(i, Undefined, <<>>, n, p) :
        i \in {Undefined, IdText(1)}, n \in EventNames, p \in WireParams}
PeerFrames == {Garbage} \cup ResponseFrames \cup NotificationFrames

ClientInit ==
    /\ connected = TRUE
    /\ call_id = 0
    /\ events = <<>>
    /\ queue = <<>>
    /\ listeners = {}
    /\ timers = <<>>
    /\ sendcb = <<>>
    /\ promise = <<>>
    /\ cout = <<>>
    /\ clast = Step("init", 0, FALSE, FALSE, "none", <<>>)

\* what the application asks of the client
SubscribedNames == {"tick"}
CalledMethods == {"double"}

ClientNext ==
    \/ \E n \in SubscribedNames, cb \in Callbacks, a \in BOOLEAN :
            ClientSubscribe(n, cb, a)
    \/ \E n \in SubscribedNames, a \in BOOLEAN : ClientUnsubscribe(n, a)
    \/ \E m \in CalledMethods, a \in BOOLEAN : ClientSend(m, ArrayOf(<<"21">>), a)
    \/ \E id \in 1..MaxCalls : SendComplete(id)
    \/ \E id \in 1..MaxCalls : TimerFire(id)
    \/ \E f \in PeerFrames : OnMessage(f) /\ UNCHANGED s2c

-----------------------------------------------------------------------------
(* Browser client: the same state, ws.send is synchronous and the listener of a
   call is installed in _send itself *)

\* reject({ error: { code: 32700, message: 'Parse error' } })
BrowserSendRejection ==
    [state |-> "rejected", result |-> Undefined,
     error |-> <<[code |-> 32700, message |-> "Parse error"]>>]

\* queue.set(request.id, { type: 'request', error: {...} }) of the timeout callback
BrowserTimeoutEntry ==
    [type |-> "request", result |-> Undefined,
     error |-> <<[code |-> ParseErrorCode, message |-> "Parse error"]>>]

\* resolve({ data: response.result, error: response.error })
BrowserResolution(entry) ==
    [state |-> "resolved", data |-> entry.result, error |-> entry.error]

\* the listener of _send, run for every id in T
BrowserListenerPromise(T, q) ==
    [t \in DOMAIN promise |->
        IF t \in T /\ t \in DOMAIN q
        THEN Settle(promise[t], BrowserResolution(q[t]))
        ELSE promise[t]]

\* _send: arm the timeout, ws.send, install the listener unless ws.send threw
Browser_send(id, method, params, accepted) ==
    /\ timers' = (id :> "armed") @@ timers
    /\ promise' = (id :> IF accepted THEN Pending ELSE BrowserSendRejection) @@ promise
    /\ listeners' = IF accepted THEN listeners \cup {id} ELSE listeners
    /\ cout' = IF accepted THEN <<Request(IdText(id), method, params)>> ELSE <<>>
    /\ UNCHANGED <<connected, sendcb, serverVars, netVars>>

BrowserSubscribe(name, cb, accepted) ==
    /\ connected
    /\ call_id < MaxCalls
    /\ call_id' = call_id + 1
    /\ events' = (name :> cb) @@ events
    /\ queue' = (call_id' :> QueueEntry("notification")) @@ queue
    /\ Browser_send(call_id', "rpc.on", ArrayOf(<<name>>), accepted)
    /\ clast' = Step("subscribe", call_id', FALSE, FALSE, cb, <<>>)

BrowserUnsubscribe(name, accepted) ==
    /\ connected
    /\ call_id < MaxCalls
    /\ call_id' = call_id + 1
    /\ events' = Without(events, name)
    /\ queue' = (call_id' :> QueueEntry("notification")) @@ queue
    /\ Browser_send(call_id', "rpc.off", ArrayOf(<<name>>), accepted)
    /\ clast' = Step("unsubscribe", call_id', FALSE, FALSE, "none", <<>>)

BrowserSend(method, params, accepted) ==
    /\ connected
    /\ call_id < MaxCalls
    /\ call_id' = call_id + 1
    /\ queue' = (call_id' :> QueueEntry("request")) @@ queue
    /\ Browser_send(call_id', method, params, accepted)
    /\ clast' = Step("send", call_id', FALSE, FALSE, "none", <<>>)
    /\ UNCHANGED events

\* the callTimeout callback: the entry is overwritten, then the event dispatched
BrowserTimerFire(id) ==
    /\ id \in DOMAIN timers
    /\ timers[id] = "armed"
    /\ LET T == EmitTargets(id)
           q == (id :> BrowserTimeoutEntry) @@ queue
       IN  /\ timers' = ListenerTimers([timers EXCEPT ![id] = "fired"], T)
           /\ promise' = BrowserListenerPromise(T, q)
           /\ queue' = ListenerQueue(T, FALSE, q)
    /\ cout' = <<>>
    /\ clast' = Step("timeout", id, promise[id].state # "pending", id \in DOMAIN queue,
                     "none", <<>>)
    /\ UNCHANGED <<connected, call_id, events, listeners, sendcb, serverVars, netVars>>

\* ws.addEventListener('message', ...)
BrowserOnMessage(f) ==
    /\ connected
    /\ cout' = <<>>
    /\ UNCHANGED <<connected, call_id, events, listeners, sendcb, serverVars, netVars>>
    /\ IF f.k = "garbage"
       THEN /\ clast' = Step("message", 0, FALSE, FALSE, "none", <<>>)
            /\ UNCHANGED <<queue, timers, promise>>
       ELSE IF IsNotification(f)
       THEN /\ clast' = Step("notify", IdOf(f.id), FALSE, IdOf(f.id) \in DOMAIN queue,
                             events[f.notification], CoerceParams(f.params))
            /\ UNCHANGED <<queue, timers, promise>>
       ELSE IF Falsy(f.id) \/ IdOf(f.id) \notin DOMAIN queue
       THEN /\ clast' = Step("message", IdOf(f.id),
                             IdOf(f.id) \in DOMAIN promise
                                 /\ promise[IdOf(f.id)].state # "pending",
                             FALSE, "none", <<>>)
            /\ UNCHANGED <<queue, timers, promise>>
       ELSE LET id == IdOf(f.id)
                q == StoreResponse(queue, id, f)
                T == EmitTargets(id)
            IN  /\ timers' = ListenerTimers(timers, T)
                /\ promise' = BrowserListenerPromise(T, q)
                /\ queue' = ListenerQueue(T, FALSE, q)
                /\ clast' = Step("message", id, promise[id].state # "pending", TRUE,
                                 "none", <<>>)

BrowserNext ==
    \/ \E n \in SubscribedNames, cb \in Callbacks, a \in BOOLEAN :
            BrowserSubscribe(n, cb, a)
    \/ \E n \in SubscribedNames, a \in BOOLEAN : BrowserUnsubscribe(n, a)
    \/ \E m \in CalledMethods, a \in BOOLEAN : BrowserSend(m, ArrayOf(<<"21">>), a)
    \/ \E id \in 1..MaxCalls : BrowserTimerFire(id)
    \/ \E f \in PeerFrames : BrowserOnMessage(f)

-----------------------------------------------------------------------------
(* Server *)

Sockets == 1..MaxSockets
Handlers == {"h1", "h2"}

\* namespace paths are sequences of characters
Root == <<"/">>
Chat == <<"/", "c">>
WordChars ==
    {"a", "b", "c", "d", "e", "f", "g", "h", "i", "j", "k", "l", "m", "n", "o", "p",
     "q", "r", "s", "t", "u", "v", "w", "x", "y", "z", "A", "B", "C", "D", "E", "F",
     "G", "H", "I", "J", "K", "L", "M", "N", "O", "P", "Q", "R", "S", "T", "U", "V",
     "W", "X", "Y", "Z", "0", "1", "2", "3", "4", "5", "6", "7", "8", "9", "_"}

\* mutant of ValidNs: the pattern is not anchored at the end
ValidNsPrefix(ns) ==
    /\ Len(ns) >= 1
    /\ ns[1] = "/"

\* /^\/\w*$/g.test(ns)
ValidNs(ns) ==
    /\ Len(ns) >= 1
    /\ ns[1] = "/"
    /\ \A i \in 2..Len(ns) : ns[i] \in WordChars

\* const ns = req.url || '/'
NsOfUrl(url) == IF url = <<>> THEN Root ELSE url

AbsentParams == [arr |-> FALSE, v |-> <<Undefined>>]

\* JSON.stringify then JSON.parse of a scalar: NaN becomes null
JsonValue(v) == IF v = "NaN" THEN "null" ELSE v

\* createJSONResponse(data): undefined members are left out of the text
createJSONResponse(id, notification, result, params, error) ==
    Frame(JsonValue(id), JsonValue(result), error, notification, params)

ErrorResponse(id, code, message) ==
    createJSONResponse(id, Undefined, Undefined, AbsentParams,
                       <<[code |-> code, message |-> message]>>)

\* generateNamespace(ns)
generateNamespace(nss, ns) ==
    (ns :> [clients |-> <<>>, events |-> <<>>, methods |-> <<>>]) @@ nss

\* mutant of EnsureNamespace: the namespace is generated anew every time
EnsureNamespaceAnew(nss, ns) == generateNamespace(nss, ns)

\* if (!namespaces.has(ns)) generateNamespace(ns)
EnsureNamespace(nss, ns) == IF ns \in DOMAIN nss THEN nss ELSE generateNamespace(nss, ns)

internalMethods == {"rpc.on", "rpc.off"}

\* validateRequest(payload)
validateRequest(payload) ==
    /\ payload.params # AbsentParams
    /\ payload.params.arr
    /\ Len(payload.params.v) > 0

\* the text of { [eventName]: flag }
EventFlag(eventName, flag) == "{" \o eventName \o ":" \o flag \o "}"

\* mutant of subscribe: the connection is added to every event of the namespace
subscribeAll(targetNs, payload, socketId) ==
    IF ~validateRequest(payload) \/ payload.params.v[1] \notin DOMAIN targetNs.events
    THEN [ns |-> targetNs,
          out |-> ErrorResponse(payload.id, InvalidParamsCode, "Invalid params")]
    ELSE [ns |-> [targetNs EXCEPT !.events =
                      [e \in DOMAIN targetNs.events |-> targetNs.events[e] \cup {socketId}]],
          out |-> createJSONResponse(payload.id, Undefined,
                                     EventFlag(payload.params.v[1], "true"),
                                     AbsentParams, <<>>)]

\* subscribe(targetNs, payload, socketId): the namespace afterwards and the response
subscribe(targetNs, payload, socketId) ==
    IF ~validateRequest(payload)
    THEN [ns |-> targetNs,
          out |-> ErrorResponse(payload.id, InvalidParamsCode, "Invalid params")]
    ELSE IF payload.params.v[1] \notin DOMAIN targetNs.events
    THEN [ns |-> targetNs,
          out |-> ErrorResponse(payload.id, InvalidParamsCode, "Invalid params")]
    ELSE LET eventName == payload.params.v[1] IN
         [ns |-> [targetNs EXCEPT !.events[eventName] = @ \cup {socketId}],
          out |-> createJSONResponse(payload.id, Undefined, EventFlag(eventName, "true"),
                                     AbsentParams, <<>>)]

\* mutant of unsubscribe: the subscriber set of the event is emptied
unsubscribeClears(targetNs, payload, socketId) ==
    IF ~validateRequest(payload) \/ payload.params.v[1] \notin DOMAIN targetNs.events
    THEN [ns |-> targetNs,
          out |-> ErrorResponse(payload.id, InvalidParamsCode, "Invalid params")]
    ELSE [ns |-> [targetNs EXCEPT !.events[payload.params.v[1]] = {}],
          out |-> createJSONResponse(payload.id, Undefined,
                                     EventFlag(payload.params.v[1], "false"),
                                     AbsentParams, <<>>)]

\* mutant of unsubscribe: acknowledged, but the subscriber stays in the set
unsubscribeKeeps(targetNs, payload, socketId) ==
    IF ~validateRequest(payload) \/ payload.params.v[1] \notin DOMAIN targetNs.events
    THEN [ns |-> targetNs,
          out |-> ErrorResponse(payload.id, InvalidParamsCode, "Invalid params")]
    ELSE [ns |-> targetNs,
          out |-> createJSONResponse(payload.id, Undefined,
                                     EventFlag(payload.params.v[1], "false"),
                                     AbsentParams, <<>>)]

\* unsubscribe(targetNs, payload, socketId)
unsubscribe(targetNs, payload, socketId) ==
    IF ~validateRequest(payload)
    THEN [ns |-> targetNs,
          out |-> ErrorResponse(payload.id, InvalidParamsCode, "Invalid params")]
    ELSE IF payload.params.v[1] \notin DOMAIN targetNs.events
    THEN [ns |-> targetNs,
          out |-> ErrorResponse(payload.id, InvalidParamsCode, "Invalid params")]
    ELSE LET eventName == payload.params.v[1] IN
         [ns |-> [targetNs EXCEPT !.events[eventName] = @ \ {socketId}],
          out |-> createJSONResponse(payload.id, Undefined, EventFlag(eventName, "false"),
                                     AbsentParams, <<>>)]

\* mutant of MethodTable: one method table shared by all namespaces
MethodTableGlobal(nss, ns) ==
    [m \in UNION {DOMAIN nss[n].methods : n \in DOMAIN nss} |->
        LET n == CHOOSE n \in DOMAIN nss : m \in DOMAIN nss[n].methods
        IN  nss[n].methods[m]]

\* the method table a request of a connection in namespace ns is looked up in
MethodTable(nss, ns) == nss[ns].methods

\* mutant of MethodNotFound: the reply does not carry the request's id
MethodNotFoundNullId(id) == ErrorResponse("null", MethodNotFoundCode, "Method not found")

\* the reply to a method the table does not hold
MethodNotFound(id) == ErrorResponse(id, MethodNotFoundCode, "Method not found")

\* mutant of ParseErrorResponse: the reply of the outer catch
ParseErrorResponseInternal == ErrorResponse("null", InternalErrorCode, "Internal error")

\* the reply sent when JSON.parse throws
ParseErrorResponse == ErrorResponse("null", ParseErrorCode, "Parse error")

\* mutant of handleRPC: the method table of the namespace is looked up before
\* the internal methods
handleRPCTableFirst(nss, socketId, f) ==
    LET ns == conns[socketId].ns
        targetNs == nss[ns]
    IN  IF f.k = "garbage"
        THEN [nss |-> nss, inv |-> <<>>, out |-> <<ParseErrorResponse>>]
        ELSE IF f.k = "null"
        THEN [nss |-> nss, inv |-> <<>>,
              out |-> <<ErrorResponse("null", InternalErrorCode, "Internal error")>>]
        ELSE IF f.method \in DOMAIN MethodTable(nss, ns)
        THEN [nss |-> nss, out |-> <<>>,
              inv |-> <<[socketId |-> socketId, id |-> f.id,
                         fn |-> MethodTable(nss, ns)[f.method], params |-> f.params]>>]
        ELSE IF f.method \in internalMethods
        THEN LET r == IF f.method = "rpc.on"
                      THEN subscribe(targetNs, f, socketId)
                      ELSE unsubscribe(targetNs, f, socketId)
             IN  [nss |-> [nss EXCEPT ![ns] = r.ns], inv |-> <<>>, out |-> <<r.out>>]
        ELSE [nss |-> nss, inv |-> <<>>, out |-> <<MethodNotFound(f.id)>>]

\* the message listener handleRPC installs for one socketId, up to its first
\* await: the registry afterwards, the frames it sends, the calls it suspends on
handleRPC(nss, socketId, f) ==
    LET ns == conns[socketId].ns
        targetNs == nss[ns]
    IN  IF f.k = "garbage"
        THEN \* JSON.parse throws
             [nss |-> nss, inv |-> <<>>,
              out |-> <<ParseErrorResponse>>]
        ELSE IF f.k = "null"
        THEN \* payload is null: payload.method throws inside the outer try
             [nss |-> nss, inv |-> <<>>,
              out |-> <<ErrorResponse("null", InternalErrorCode, "Internal error")>>]
        ELSE IF f.method \in internalMethods
        THEN LET r == IF f.method = "rpc.on"
                      THEN subscribe(targetNs, f, socketId)
                      ELSE unsubscribe(targetNs, f, socketId)
             IN  [nss |-> [nss EXCEPT ![ns] = r.ns], inv |-> <<>>, out |-> <<r.out>>]
        ELSE IF f.method \notin DOMAIN MethodTable(nss, ns)
        THEN [nss |-> nss, inv |-> <<>>, out |-> <<MethodNotFound(f.id)>>]
        ELSE [nss |-> nss, out |-> <<>>,
              inv |-> <<[socketId |-> socketId, id |-> f.id,
                         fn |-> MethodTable(nss, ns)[f.method], params |-> f.params]>>]

\* the socketIds whose handlers listen on a socket, in the order they were installed
RECURSIVE SocketIdsFrom(_, _)
SocketIdsFrom(sock, i) ==
    IF i > Len(conns) THEN <<>>
    ELSE IF conns[i].sock = sock THEN <<i>> \o SocketIdsFrom(sock, i + 1)
    ELSE SocketIdsFrom(sock, i + 1)

RECURSIVE HandleAll(_, _, _)
HandleAll(ids, f, acc) ==
    IF ids = <<>> THEN acc
    ELSE LET r == handleRPC(acc.nss, Head(ids), f) IN
         HandleAll(Tail(ids), f,
                   [nss |-> r.nss, out |-> acc.out \o r.out, inv |-> acc.inv \o r.inv])

\* socket.send(frame) on a socket
Send(sock, frame) == [sock |-> sock, frame |-> frame, ok |-> sockState[sock] = "open"]

\* the socket the client of this model is the peer of
WiredSock == 1

\* the frames of a step that reach the client
Delivered(out) ==
    LET mine == SelectSeq(out, LAMBDA x : x.sock = WiredSock /\ x.ok)
    IN  [i \in 1..Len(mine) |-> mine[i].frame]

\* the client holds an acknowledged subscription to an event: its latest call
\* was resolved with the acknowledgement of rpc.on and the callback is in place
ClientSubscribed(name) ==
    /\ call_id \in DOMAIN promise
    /\ name \in DOMAIN events
    /\ promise[call_id].state = "resolved"
    /\ promise[call_id].result = EventFlag(name, "true")
    /\ promise[call_id].error = <<>>

\* the client's latest call was resolved with the acknowledgement of rpc.off
ClientUnsubscribed(name) ==
    /\ call_id \in DOMAIN promise
    /\ name \notin DOMAIN events
    /\ promise[call_id].state = "resolved"
    /\ promise[call_id].result = EventFlag(name, "false")
    /\ promise[call_id].error = <<>>

Transport ==
    /\ s2c' = IF wired THEN s2c \o Delivered(sent') ELSE s2c
    /\ owed' = IF wired /\ slast'.op = "emit" /\ slast'.ns = Root
                       /\ ClientSubscribed(slast'.name)
               THEN owed + 1 ELSE owed
    /\ UNCHANGED <<clientVars, wired>>

SStep(op, sock, ns, name, fn, frame) ==
    [op |-> op, sock |-> sock, ns |-> ns, name |-> name, fn |-> fn, frame |-> frame]

\* ws.on('listening', ...): installs one more 'connection' listener
InstallHandlers ==
    /\ listening' = TRUE
    /\ connHandlers' = connHandlers + 1

\* mutant of RunConnection: the connection is put into the client map of '/'
RunConnectionRoot(sock, url, k) ==
    LET ns == NsOfUrl(url) IN
    IF ~ValidNs(ns) \/ ns \notin DOMAIN namespaces
    THEN /\ sockState' = [sockState EXCEPT ![sock] = "rejected"]
         /\ slast' = SStep("reject", sock, ns, "none", "none", NoFrame)
         /\ UNCHANGED <<namespaces, conns>>
    ELSE /\ sockState' = [sockState EXCEPT ![sock] = "open"]
         /\ conns' = conns \o [i \in 1..k |-> [sock |-> sock, ns |-> ns]]
         /\ namespaces' =
               [namespaces EXCEPT ![Root].clients =
                    [i \in (Len(conns) + 1)..(Len(conns) + k) |-> sock] @@ @]
         /\ slast' = SStep("connection", sock, ns, "none", "none", NoFrame)

\* the installed 'connection' listeners, run for one socket
RunConnection(sock, url, k) ==
    LET ns == NsOfUrl(url) IN
    IF ~ValidNs(ns) \/ ns \notin DOMAIN namespaces
    THEN \* return socket.close(): no listener is installed on the socket
         /\ sockState' = [sockState EXCEPT ![sock] = "rejected"]
         /\ slast' = SStep("reject", sock, ns, "none", "none", NoFrame)
         /\ UNCHANGED <<namespaces, conns>>
    ELSE /\ sockState' = [sockState EXCEPT ![sock] = "open"]
         /\ conns' = conns \o [i \in 1..k |-> [sock |-> sock, ns |-> ns]]
         /\ namespaces' =
               [namespaces EXCEPT ![ns].clients =
                    [i \in (Len(conns) + 1)..(Len(conns) + k) |-> sock] @@ @]
         /\ slast' = SStep("connection", sock, ns, "none", "none", NoFrame)

\* the WebSocketServer's own 'listening' event
Listening ==
    /\ ~wsListening
    /\ wsListening' = TRUE
    /\ InstallHandlers
    /\ sent' = <<>>
    /\ slast' = SStep("listening", 0, <<>>, "none", "none", NoFrame)
    /\ UNCHANGED <<namespaces, conns, sockState, inflight>>
    /\ Transport
    /\ UNCHANGED c2s

\* a connection the WebSocketServer accepted itself
Connection(sock, url) ==
    /\ wsListening
    /\ sockState[sock] = "idle"
    /\ \A other \in Sockets : other < sock => sockState[other] # "idle"
    /\ RunConnection(sock, url, connHandlers)
    /\ sent' = <<>>
    /\ UNCHANGED <<listening, wsListening, connHandlers, inflight>>
    /\ Transport
    /\ UNCHANGED c2s

\* handleUpgrade(req, socket, upgradeHead, callback)
handleUpgrade(sock, url) ==
    /\ sockState[sock] = "idle"
    /\ IF ~listening THEN InstallHandlers ELSE UNCHANGED <<listening, connHandlers>>
    /\ RunConnection(sock, url, connHandlers')
    /\ sent' = <<>>
    /\ UNCHANGED <<wsListening, inflight>>
    /\ Transport
    /\ UNCHANGED c2s

\* the peer or the transport ends an admitted connection: the socket is no
\* longer open, its 'close' event is still to come
SocketClosing(sock) ==
    /\ sockState[sock] = "open"
    /\ sockState' = [sockState EXCEPT ![sock] = "closing"]
    /\ sent' = <<>>
    /\ slast' = SStep("closing", sock, <<>>, "none", "none", NoFrame)
    /\ UNCHANGED <<listening, wsListening, connHandlers, namespaces, conns, inflight>>
    /\ Transport
    /\ UNCHANGED c2s

\* mutant of SocketClose: the connection stays in the client map
SocketCloseKeeps(sock) ==
    /\ sockState[sock] \in {"open", "closing"}
    /\ sockState' = [sockState EXCEPT ![sock] = "closed"]
    /\ sent' = <<>>
    /\ slast' = SStep("close", sock, <<>>, "none", "none", NoFrame)
    /\ UNCHANGED <<listening, wsListening, connHandlers, namespaces, conns, inflight>>
    /\ Transport
    /\ UNCHANGED c2s

\* socket.on('close', ...) of every handler run for the socket
SocketClose(sock) ==
    /\ sockState[sock] \in {"open", "closing"}
    /\ sockState' = [sockState EXCEPT ![sock] = "closed"]
    /\ namespaces' =
          [ns \in DOMAIN namespaces |->
              [namespaces[ns] EXCEPT !.clients =
                  [id \in {i \in DOMAIN @ : conns[i].sock # sock} |-> @[id]]]]
    /\ sent' = <<>>
    /\ slast' = SStep("close", sock, <<>>, "none", "none", NoFrame)
    /\ UNCHANGED <<listening, wsListening, connHandlers, conns, inflight>>
    /\ Transport
    /\ UNCHANGED c2s

\* mutant of SocketError: the error handler removes the connection as the close
\* handler does
SocketErrorRemoves(sock) ==
    /\ sockState[sock] = "open"
    /\ namespaces' =
          [ns \in DOMAIN namespaces |->
              [namespaces[ns] EXCEPT !.clients =
                  [id \in {i \in DOMAIN @ : conns[i].sock # sock} |-> @[id]]]]
    /\ sent' = <<>>
    /\ slast' = SStep("socket-error", sock, <<>>, "none", "none", NoFrame)
    /\ UNCHANGED <<listening, wsListening, connHandlers, conns, sockState, inflight>>
    /\ Transport
    /\ UNCHANGED c2s

\* socket.on('error', ...): emits 'socket-error'
SocketError(sock) ==
    /\ sockState[sock] = "open"
    /\ sent' = <<>>
    /\ slast' = SStep("socket-error", sock, <<>>, "none", "none", NoFrame)
    /\ UNCHANGED <<listening, wsListening, connHandlers, namespaces, conns, sockState,
                   inflight>>
    /\ Transport
    /\ UNCHANGED c2s

\* the 'message' listeners of a socket, run for one frame
Dispatch(sock, f) ==
    /\ LET r == HandleAll(SocketIdsFrom(sock, 1), f,
                          [nss |-> namespaces, out |-> <<>>, inv |-> <<>>])
       IN  /\ Len(inflight) + Len(r.inv) <= MaxInflight
           /\ namespaces' = r.nss
           /\ inflight' = inflight \o r.inv
           /\ sent' = [i \in 1..Len(r.out) |-> Send(sock, r.out[i])]
    /\ slast' = SStep("message", sock, <<>>, "none", "none", f)
    /\ UNCHANGED <<listening, wsListening, connHandlers, conns, sockState>>
    /\ Transport


\* mutant of Message: a frame that arrives while a handler is suspended is not
\* dispatched
MessageSerialized(sock, f) ==
    /\ sockState[sock] = "open"
    /\ IF inflight = <<>>
       THEN Dispatch(sock, f)
       ELSE /\ sent' = <<>>
            /\ slast' = SStep("message", sock, <<>>, "none", "none", f)
            /\ UNCHANGED <<listening, wsListening, connHandlers, namespaces, conns,
                           sockState, inflight>>
            /\ Transport

\* socket.on('message', ...) of every handler run for the socket
Message(sock, f) ==
    /\ sockState[sock] = "open"
    /\ Dispatch(sock, f)

\* the call of a 'return' or 'throw' step, as it stood in inflight
CallOf(step) ==
    [socketId |-> step.frame.socketId, id |-> step.frame.id, fn |-> step.fn,
     params |-> step.frame.params]

\* a frame of a peer whose connection was refused, arriving before the close
\* completes
StrayMessage(sock, f) ==
    /\ sockState[sock] = "rejected"
    /\ Dispatch(sock, f)

RemoveAt(s, i) == SubSeq(s, 1, i - 1) \o SubSeq(s, i + 1, Len(s))

\* result: response || undefined
ResultOf(response) == IF Falsy(response) THEN Undefined ELSE response

\* mutant of ApplicationError: every handler failure is reported as an internal error
ApplicationErrorInternal(error) ==
    [code |-> InternalErrorCode, message |-> "Internal error"]

\* the error member of the response to a handler failure
ApplicationError(error) ==
    [code |-> ApplicationErrorCode,
     message |-> IF Falsy(error.message) THEN "Internal error" ELSE error.message]

\* the awaited handler returns: socket.send(createJSONResponse({id, result}))
HandlerReturns(i, response) ==
    /\ i \in 1..Len(inflight)
    /\ LET c == inflight[i] IN
        /\ sent' = <<Send(conns[c.socketId].sock,
                          createJSONResponse(c.id, Undefined, ResultOf(response),
                                             AbsentParams, <<>>))>>
        /\ slast' = SStep("return", conns[c.socketId].sock, conns[c.socketId].ns,
                          response, c.fn, [k |-> "call", id |-> c.id, params |-> c.params,
                                           socketId |-> c.socketId])
    /\ inflight' = RemoveAt(inflight, i)
    /\ UNCHANGED <<listening, wsListening, connHandlers, namespaces, conns, sockState>>
    /\ Transport
    /\ UNCHANGED c2s

\* the awaited handler throws or rejects
HandlerThrows(i, error) ==
    /\ i \in 1..Len(inflight)
    /\ LET c == inflight[i] IN
        /\ sent' = <<Send(conns[c.socketId].sock,
                          createJSONResponse(c.id, Undefined, Undefined, AbsentParams,
                                             <<ApplicationError(error)>>))>>
        /\ slast' = SStep("throw", conns[c.socketId].sock, conns[c.socketId].ns,
                          error.message, c.fn,
                          [k |-> "call", id |-> c.id, params |-> c.params,
                           socketId |-> c.socketId, data |-> error.data])
    /\ inflight' = RemoveAt(inflight, i)
    /\ UNCHANGED <<listening, wsListening, connHandlers, namespaces, conns, sockState>>
    /\ Transport
    /\ UNCHANGED c2s

\* mutant of register: a method that is already registered keeps its handler
registerOnce(method, fn, ns) ==
    /\ namespaces' = [EnsureNamespace(namespaces, ns) EXCEPT ![ns].methods = @ @@ (method :> fn)]
    /\ sent' = <<>>
    /\ slast' = SStep("register", 0, ns, method, fn, NoFrame)
    /\ UNCHANGED <<listening, wsListening, connHandlers, conns, sockState, inflight>>
    /\ Transport
    /\ UNCHANGED c2s

\* register(method, fn, ns)
register(method, fn, ns) ==
    /\ namespaces' = [EnsureNamespace(namespaces, ns) EXCEPT ![ns].methods = (method :> fn) @@ @]
    /\ sent' = <<>>
    /\ slast' = SStep("register", 0, ns, method, fn, NoFrame)
    /\ UNCHANGED <<listening, wsListening, connHandlers, conns, sockState, inflight>>
    /\ Transport
    /\ UNCHANGED c2s

\* mutant of event: a declared name is declared anew
eventResets(name, ns) ==
    /\ namespaces' =
           [EnsureNamespace(namespaces, ns) EXCEPT ![ns].events =
                (name :> {}) @@ [e \in DOMAIN @ \ {name} |-> @[e]]]
    /\ slast' = SStep("event", 0, ns, name, "none", NoFrame)
    /\ sent' = <<>>
    /\ UNCHANGED <<listening, wsListening, connHandlers, conns, sockState, inflight>>
    /\ Transport
    /\ UNCHANGED c2s

\* event(name, ns)
event(name, ns) ==
    /\ IF ns \in DOMAIN namespaces /\ name \in DOMAIN namespaces[ns].events
       THEN \* throw new Error('Event already exists')
            /\ slast' = SStep("event-exists", 0, ns, name, "none", NoFrame)
            /\ UNCHANGED namespaces
       ELSE /\ namespaces' =
                  [EnsureNamespace(namespaces, ns) EXCEPT ![ns].events = (name :> {}) @@ @]
            /\ slast' = SStep("event", 0, ns, name, "none", NoFrame)
    /\ sent' = <<>>
    /\ UNCHANGED <<listening, wsListening, connHandlers, conns, sockState, inflight>>
    /\ Transport
    /\ UNCHANGED c2s

\* emit: const eventSubscriptions = targetNs.events.get(name)
EventSubscriptions(nss, ns, name) == nss[ns].events[name]

\* mutant of notify: every client of the namespace is sent the frame
RECURSIVE notifyAllClients(_, _, _, _, _)
notifyAllClients(name, socketIds, ns, params, i) ==
    IF i > Len(conns) THEN <<>>
    ELSE IF i \in DOMAIN namespaces[ns].clients
    THEN <<Send(namespaces[ns].clients[i],
                createJSONResponse(Undefined, name, Undefined, ArrayOf(params), <<>>))>>
         \o notifyAllClients(name, socketIds, ns, params, i + 1)
    ELSE notifyAllClients(name, socketIds, ns, params, i + 1)

\* mutant of notify: the loop ends at the first send that fails
RECURSIVE notifyStops(_, _, _, _, _)
notifyStops(name, socketIds, ns, params, i) ==
    IF i > Len(conns) THEN <<>>
    ELSE IF i \in DOMAIN namespaces[ns].clients /\ i \in socketIds
    THEN LET out == Send(namespaces[ns].clients[i],
                         createJSONResponse(Undefined, name, Undefined, ArrayOf(params),
                                            <<>>))
         IN  IF out.ok THEN <<out>> \o notifyStops(name, socketIds, ns, params, i + 1)
             ELSE <<out>>
    ELSE notifyStops(name, socketIds, ns, params, i + 1)

\* notify(name, socketIds, ns, ...params): the sends, in the order of the client map
RECURSIVE notify(_, _, _, _, _)
notify(name, socketIds, ns, params, i) ==
    IF i > Len(conns) THEN <<>>
    ELSE IF i \in DOMAIN namespaces[ns].clients /\ i \in socketIds
    THEN <<Send(namespaces[ns].clients[i],
                createJSONResponse(Undefined, name, Undefined, ArrayOf(params), <<>>))>>
         \o notify(name, socketIds, ns, params, i + 1)
    ELSE notify(name, socketIds, ns, params, i + 1)

\* mutant of emit: the namespace is created when it is missing
emitEnsures(name, ns, params) ==
    /\ namespaces' = EnsureNamespace(namespaces, ns)
    /\ sent' = IF ns \notin DOMAIN namespaces THEN <<>>
               ELSE IF name \notin DOMAIN namespaces[ns].events THEN <<>>
               ELSE notify(name, EventSubscriptions(namespaces, ns, name), ns, params, 1)
    /\ slast' = SStep("emit", 0, ns, name, "none", [k |-> "emit", params |-> params])
    /\ UNCHANGED <<listening, wsListening, connHandlers, conns, sockState, inflight>>
    /\ Transport
    /\ UNCHANGED c2s

\* mutant of emit: the event is sent to its subscribers in every namespace
emitEverywhere(name, ns, params) ==
    /\ sent' = LET In(n) == IF n \in DOMAIN namespaces /\ name \in DOMAIN namespaces[n].events
                            THEN notify(name, EventSubscriptions(namespaces, n, name), n,
                                        params, 1)
                            ELSE <<>>
               IN  In(Root) \o In(Chat)
    /\ slast' = SStep("emit", 0, ns, name, "none", [k |-> "emit", params |-> params])
    /\ UNCHANGED <<listening, wsListening, connHandlers, namespaces, conns, sockState,
                   inflight>>
    /\ Transport
    /\ UNCHANGED c2s

\* emit(name, ns, ...params)
emit(name, ns, params) ==
    /\ sent' = IF ns \notin DOMAIN namespaces THEN <<>>
               ELSE IF name \notin DOMAIN namespaces[ns].events THEN <<>>
               ELSE notify(name, EventSubscriptions(namespaces, ns, name), ns, params, 1)
    /\ slast' = SStep("emit", 0, ns, name, "none", [k |-> "emit", params |-> params])
    /\ UNCHANGED <<listening, wsListening, connHandlers, namespaces, conns, sockState,
                   inflight>>
    /\ Transport
    /\ UNCHANGED c2s

\* of(ns): the emit, register and event of one namespace
of(ns) ==
    /\ slast' = IF ns = <<>>
                THEN \* throw new Error('Namespace is required')
                     SStep("of-required", 0, ns, "none", "none", NoFrame)
                ELSE SStep("of", 0, ns, "none", "none", NoFrame)
    /\ sent' = <<>>
    /\ UNCHANGED <<listening, wsListening, connHandlers, namespaces, conns, sockState,
                   inflight>>
    /\ Transport
    /\ UNCHANGED c2s

\* The peers of the server and the application around it

ReqUrls == {<<>>, Chat, <<"/", "c", "/", "c">>}
NsArgs == {Root, Chat}
ReqIds == {"1", "2", Undefined}
Registrations == {<<"double", "h1", Root>>, <<"double", "h2", Root>>, <<"boom", "h1", Chat>>}
EmptyObject == Request(Undefined, Undefined, AbsentParams)
DispatchFrames ==
    {Garbage, [k |-> "null"], EmptyObject}
    \cup {Request(i, m, ArrayOf(<<"21">>)) : i \in ReqIds, m \in {"double", "foo"}}
    \cup {Request("1", "boom", NoParams), Request("1", "rpc.on", ArrayOf(<<"tick">>))}
PubSubFrames ==
    {Request(i, m, p) : i \in {"1"}, m \in internalMethods,
                        p \in {AbsentParams, NoParams, ArrayOf(<<"tick">>),
                               ArrayOf(<<"ping">>), [arr |-> FALSE, v |-> <<"tick">>]}}
ReturnValues == {Undefined, "null", "0", "", "42"}
Thrown ==
    {[message |-> "bad", data |-> Undefined],
     [message |-> "", data |-> Undefined],
     [message |-> Undefined, data |-> Undefined],
     [message |-> "custom-application-error", data |-> "{error:true}"]}
EmitParams == {<<>>, <<"1", "2">>}
Bad == <<"/", "c", "/", "c">>
AcceptUrls == {<<>>, Chat, Bad, <<"/", "x">>}
AcceptRegistrations == {<<"double", "h1", Root>>, <<"boom", "h1", Chat>>, <<"boom", "h1", Bad>>}
AcceptFrames ==
    {Garbage, Request("1", "double", ArrayOf(<<"21">>)), Request("1", "boom", NoParams),
     Request("2", "foo", NoParams)}

ServerInit ==
    /\ listening = FALSE
    /\ wsListening = FALSE
    /\ connHandlers = 0
    /\ namespaces = generateNamespace(<<>>, Root)
    /\ conns = <<>>
    /\ sockState = [s \in Sockets |-> "idle"]
    /\ inflight = <<>>
    /\ sent = <<>>
    /\ slast = SStep("init", 0, <<>>, "none", "none", NoFrame)

\* a server created with a port, its connections accepted by the WebSocketServer
Next ==
    \/ Listening
    \/ \E sock \in Sockets, url \in ReqUrls : Connection(sock, url)
    \/ \E sock \in Sockets : SocketClose(sock)
    \/ \E sock \in Sockets : SocketError(sock)
    \/ \E sock \in Sockets, f \in DispatchFrames : Message(sock, f) /\ UNCHANGED c2s
    \/ \E i \in 1..MaxInflight, v \in ReturnValues : HandlerReturns(i, v)
    \/ \E i \in 1..MaxInflight, e \in Thrown : HandlerThrows(i, e)
    \/ \E r \in Registrations : register(r[1], r[2], r[3])
    \/ event("tick", Root)
    \/ \E p \in EmitParams : emit("tick", Root, p)

PubSubNext ==
    \/ Listening
    \/ \E sock \in Sockets, url \in ReqUrls : Connection(sock, url)
    \/ \E sock \in Sockets : SocketClosing(sock)
    \/ \E sock \in Sockets : SocketClose(sock)
    \/ \E sock \in Sockets, f \in PubSubFrames : Message(sock, f) /\ UNCHANGED c2s
    \/ \E n \in EventNames, ns \in NsArgs : event(n, ns)
    \/ \E n \in EventNames, ns \in NsArgs, p \in EmitParams : emit(n, ns, p)

\* an application that registers methods under the names of the internal ones
ReservedRegistrations ==
    {<<"rpc.on", "h1", Root>>, <<"rpc.off", "h2", Root>>, <<"double", "h1", Root>>,
     <<"rpc.on", "h1", Chat>>}
ReservedFrames ==
    {Request("1", m, p) : m \in internalMethods, p \in {AbsentParams, ArrayOf(<<"tick">>)}}
    \cup {Request("2", "double", ArrayOf(<<"21">>))}

ReservedNext ==
    \/ Listening
    \/ \E sock \in Sockets, url \in {<<>>, Chat} : Connection(sock, url)
    \/ \E sock \in Sockets : SocketClose(sock)
    \/ \E sock \in Sockets, f \in ReservedFrames : Message(sock, f) /\ UNCHANGED c2s
    \/ \E i \in 1..MaxInflight : HandlerReturns(i, "42")
    \/ \E r \in ReservedRegistrations : register(r[1], r[2], r[3])
    \/ event("tick", Root)

\* the admission of connections: any path may be requested, and a refused
\* peer may have frames on the wire
AcceptNext ==
    \/ Listening
    \/ \E sock \in Sockets, url \in AcceptUrls : Connection(sock, url)
    \/ \E sock \in Sockets : SocketClose(sock)
    \/ \E sock \in Sockets, f \in AcceptFrames : Message(sock, f) /\ UNCHANGED c2s
    \/ \E sock \in Sockets, f \in AcceptFrames : StrayMessage(sock, f) /\ UNCHANGED c2s
    \/ \E i \in 1..MaxInflight : HandlerReturns(i, "42")
    \/ \E r \in AcceptRegistrations : register(r[1], r[2], r[3])
    \/ \E ns \in {<<>>, Chat} : of(ns)

-----------------------------------------------------------------------------
(* Specifications *)

NetInit(w) ==
    /\ wired = w
    /\ c2s = <<>>
    /\ s2c = <<>>
    /\ owed = 0

Init == ClientInit /\ ServerInit /\ NetInit(FALSE)

\* the client against an arbitrary peer
ClientSpec == Init /\ [][ClientNext]_vars

\* The event loop runs every callback that is due: a send-completion callback
\* and an armed timer are eventually run.  Nothing obliges the peer to answer.
ClientFairness ==
    \A id \in 1..MaxCalls : WF_vars(SendComplete(id)) /\ WF_vars(TimerFire(id))

FairClientSpec == Init /\ [][ClientNext]_vars /\ ClientFairness

\* the browser client against an arbitrary peer
BrowserSpec == Init /\ [][BrowserNext]_vars

\* the frames of a server the client subscribes at: notifications of the event,
\* and the acknowledgement or the error that answers an rpc.on or rpc.off call
TickFrames ==
    {Frame(i, Undefined, <<>>, "tick", p) : i \in {Undefined, IdText(1)}, p \in WireParams}
AckFrames ==
    {Frame(IdText(n), EventFlag("tick", b), <<>>, Undefined, NoParams) :
        n \in 1..MaxCalls, b \in {"true", "false"}}
    \cup {Frame(IdText(n), Undefined, <<ErrorFor(IdText(n))>>, Undefined, NoParams) :
            n \in 1..MaxCalls}

SubscribeNext ==
    \/ \E cb \in Callbacks, a \in BOOLEAN : ClientSubscribe("tick", cb, a)
    \/ \E a \in BOOLEAN : ClientUnsubscribe("tick", a)
    \/ \E id \in 1..MaxCalls : SendComplete(id)
    \/ \E id \in 1..MaxCalls : TimerFire(id)
    \/ \E f \in TickFrames \cup AckFrames : OnMessage(f) /\ UNCHANGED s2c

\* the client subscribing and unsubscribing while notifications arrive
SubscribeSpec == Init /\ [][SubscribeNext]_vars

\* the server dispatching the requests of arbitrary peers
Spec == Init /\ [][Next]_vars

\* the server's events: declaration, subscription, fan-out
PubSubSpec == Init /\ [][PubSubNext]_vars

\* the server admitting and refusing connections
AcceptSpec == Init /\ [][AcceptNext]_vars

\* a server that is also handed upgrade requests by the application
UpgradeFrames ==
    {Request("1", "double", ArrayOf(<<"21">>)), Request("2", "foo", NoParams),
     Request("1", "rpc.on", ArrayOf(<<"tick">>))}

UpgradeNext ==
    \/ Listening
    \/ \E sock \in Sockets, url \in {<<>>, Chat} : Connection(sock, url)
    \/ \E sock \in Sockets, url \in {<<>>, Chat} : handleUpgrade(sock, url)
    \/ \E sock \in Sockets : SocketClose(sock)
    \/ \E sock \in Sockets, f \in UpgradeFrames : Message(sock, f) /\ UNCHANGED c2s
    \/ \E i \in 1..MaxInflight : HandlerReturns(i, "42")
    \/ register("double", "h1", Root)
    \/ event("tick", Root)

UpgradeSpec == Init /\ [][UpgradeNext]_vars

\* the server of an application that registers under the internal names
ReservedSpec == Init /\ [][ReservedNext]_vars

\* the client connected to the server: requests and frames travel in order
WireMessage ==
    /\ wired
    /\ c2s # <<>>
    /\ Message(WiredSock, Head(c2s))
    /\ c2s' = Tail(c2s)

WireFrame ==
    /\ wired
    /\ s2c # <<>>
    /\ OnMessage(Head(s2c))
    /\ s2c' = Tail(s2c)

WiredNext ==
    \/ Listening
    \/ Connection(WiredSock, <<>>)
    \/ event("tick", Root)
    \/ Len(s2c) < MaxChan /\ emit("tick", Root, <<"1">>)
    \/ WireMessage
    \/ \E cb \in Callbacks, a \in BOOLEAN : ClientSubscribe("tick", cb, a)
    \/ \E a \in BOOLEAN : ClientUnsubscribe("tick", a)
    \/ \E id \in 1..MaxCalls : SendComplete(id)
    \/ \E id \in 1..MaxCalls : TimerFire(id)
    \/ WireFrame

WiredInit == ClientInit /\ ServerInit /\ NetInit(TRUE)

WiredSpec == WiredInit /\ [][WiredNext]_vars

-----------------------------------------------------------------------------
(* Claims about the Node client *)

Issued == DOMAIN promise
Settled(id) == id \in Issued /\ promise[id].state # "pending"

\* C1: a call is resolved only by a response frame carrying its own id, and its
\* outcome holds the result/error of responses with that id, never the payload
\* of a response with another id, whatever the arrival order.
C1_Correlation ==
    [][\A id \in DOMAIN promise' :
          promise'[id].state = "resolved" =>
            /\ promise'[id].result \in {Undefined, ResultFor(IdText(id))}
            /\ promise'[id].error \in {<<>>, <<ErrorFor(IdText(id))>>}
            /\ (id \in Issued /\ promise[id].state = "pending") =>
                  \E f \in ResponseFrames :
                     /\ f.id = IdText(id)
                     /\ OnMessage(f)
                     /\ IF f.error # <<>>
                        THEN promise'[id].error = f.error
                        ELSE promise'[id].result = f.result]_vars

\* C1 witness: the response to call 2 arrived and resolved it before the response
\* to call 1, and each call holds its own payload.
C1_Witness ==
    /\ clast.op = "message" /\ clast.id = 1 /\ ~clast.settled
    /\ Settled(1) /\ promise[1].state = "resolved"
    /\ promise[1].result = ResultFor(IdText(1))
    /\ Settled(2) /\ promise[2].state = "resolved"
    /\ promise[2].result = ResultFor(IdText(2))

\* C2: a settled call keeps its outcome for ever, and a response frame for an id
\* whose call is already settled changes no call's outcome and no subscription.
C2_AtMostOnce ==
    [][/\ \A id \in Issued : Settled(id) => promise'[id] = promise[id]
       /\ (clast'.op = "message" /\ clast'.settled) =>
             /\ \A id \in Issued : promise'[id] = promise[id]
             /\ events' = events]_vars

\* C2 witness: a response arrived after its call had timed out, found the queue
\* entry still there and ran the listener again.
C2_Witness ==
    /\ clast.op = "message" /\ clast.settled /\ clast.entry
    /\ promise[clast.id] = TimeoutRejection

\* C3: every issued call eventually settles.
C3_EventuallySettles ==
    \A id \in 1..MaxCalls : (id \in Issued) ~> Settled(id)

\* C26: when the timeout of a call of the Node client fires while the call is
\* pending and its listener is installed, the call is rejected with an error
\* of code -32700, and no frame is sent to the server.
C26_TimeoutParseError ==
    [][( /\ clast'.op = "timeout"
         /\ clast'.id \in listeners
         /\ promise[clast'.id].state = "pending" ) =>
            /\ promise'[clast'.id].state = "rejected"
            /\ promise'[clast'.id].error # <<>>
            /\ promise'[clast'.id].error[1].code = -32700
            /\ cout' = <<>>
    ]_vars

\* C27: when the transport refuses the write of a request, the completion
\* callback rejects that call with {code: -32700, message: "Parse error"}
\* while its timer is still armed, and the promise, pending entry, timer and
\* listener of every other call are unchanged.
C27_SendFailure ==
    [][(clast'.op = "sendcb" /\ sendcb[clast'.id] = "err") =>
        LET id == clast'.id IN
        /\ promise[id].state = "pending"
        /\ promise'[id].state = "rejected"
        /\ promise'[id].error = <<[code |-> -32700, message |-> "Parse error"]>>
        /\ timers[id] \in {"armed", "fired"}
        /\ listeners' = listeners
        /\ \A o \in DOMAIN promise \ {id} :
              /\ promise'[o] = promise[o]
              /\ timers'[o] = timers[o]
              /\ o \in DOMAIN queue => (o \in DOMAIN queue' /\ queue'[o] = queue[o])
    ]_vars

C27_Witness ==
    /\ clast.op = "sendcb"
    /\ clast.id = 1
    /\ promise[1].state = "rejected"
    /\ promise[1].error = <<[code |-> -32700, message |-> "Parse error"]>>
    /\ timers[1] = "armed"
    /\ 2 \in DOMAIN promise
    /\ promise[2].state = "pending"
    /\ 2 \in listeners
    /\ 2 \in DOMAIN queue

\* an rpc.on call for an event is outstanding
SubscribePending(id) ==
    /\ id \in DOMAIN promise
    /\ promise[id].state = "pending"
    /\ id \in DOMAIN queue
    /\ queue[id].type = "notification"

\* C29: subscribe registers the callback in the step that sends rpc.on; a
\* notification for the event that arrives while the rpc.on call is pending is
\* delivered to that callback and leaves the pending entry, timer and promise
\* of the call unchanged; the acknowledgement that follows resolves the call
\* with its own result.
C29_SubscribeBeforeAck ==
    [][/\ clast'.op = "subscribe" =>
            \E name \in EventNames :
                /\ name \in DOMAIN events'
                /\ events'[name] = clast'.cb
                /\ cout' \in {<<>>, <<Request(IdText(clast'.id), "rpc.on",
                                              ArrayOf(<<name>>))>>}
       /\ \A f \in TickFrames :
            ( /\ clast'.op \in {"notify", "message"}
              /\ f.notification \in DOMAIN events
              /\ \E id \in DOMAIN promise : SubscribePending(id)
              /\ OnMessage(f) ) =>
                /\ clast'.op = "notify"
                /\ clast'.cb = events[f.notification]
                /\ clast'.args = CoerceParams(f.params)
                /\ promise' = promise
                /\ queue' = queue
                /\ timers' = timers
                /\ listeners' = listeners
       /\ \A f \in AckFrames :
            ( /\ clast.op = "notify"
              /\ OnMessage(f)
              /\ ~Falsy(f.id)
              /\ SubscribePending(IdOf(f.id))
              /\ queue[IdOf(f.id)] = QueueEntry("notification")
              /\ IdOf(f.id) \in listeners ) =>
                /\ promise'[IdOf(f.id)].state = "resolved"
                /\ promise'[IdOf(f.id)].result = (IF f.error # <<>> THEN Undefined ELSE f.result)
                /\ promise'[IdOf(f.id)].error = f.error
    ]_vars

C29_Witness ==
    /\ clast.op = "notify"
    /\ clast.cb \in Callbacks
    /\ "tick" \in DOMAIN events
    /\ clast.cb = events["tick"]
    /\ SubscribePending(call_id)
    /\ call_id \in listeners
    /\ timers[call_id] = "armed"

\* C28: browser client: when ws.send refuses the request the call is rejected
\* in the same step with an error of code -32700; when the timeout of a pending
\* call fires, the call settles with {code: -32700, message: "Parse error"}
\* and its pending entry is removed.
C28_BrowserFailures ==
    [][/\ (clast'.op \in {"send", "subscribe", "unsubscribe"} /\ cout' = <<>>) =>
            /\ promise'[clast'.id].state = "rejected"
            /\ promise'[clast'.id].error # <<>>
            /\ promise'[clast'.id].error[1].code = -32700
       /\ ( /\ clast'.op = "timeout"
            /\ clast'.id \in listeners
            /\ promise[clast'.id].state = "pending" ) =>
            /\ promise'[clast'.id].state = "resolved"
            /\ promise'[clast'.id].error = <<[code |-> -32700, message |-> "Parse error"]>>
            /\ clast'.id \notin DOMAIN queue'
    ]_vars

\* C32: Node client: in every state the keys of the pending map are exactly
\* the ids of the calls that have been issued and have not settled.
C32_PendingKeys ==
    DOMAIN queue = {id \in DOMAIN promise : promise[id].state = "pending"}

\* C33: Node client: a call arms its timer when it is sent, the timer of a
\* settled call is not armed, and no timer fires for a call that has settled.
C33_TimerDisarmed ==
    [][/\ clast'.op \in {"send", "subscribe", "unsubscribe"} =>
            timers'[clast'.id] = "armed"
       /\ \A id \in DOMAIN promise' :
            promise'[id].state # "pending" => timers'[id] # "armed"
       /\ clast'.op = "timeout" => promise[clast'.id].state = "pending"
    ]_vars

\* C34: an inbound frame with a notification field for which a callback is
\* registered is delivered to that callback with its params as a sequence and
\* leaves the pending map and every call untouched, also when its id is
\* pending; otherwise a frame whose id is in the pending map resolves the call
\* of that id with the frame's payload and removes that entry only; otherwise
\* the frame changes neither the pending map, nor the subscriptions, nor any
\* call.
C34_DispatchOrder ==
    [][\A f \in ResponseFrames \cup NotificationFrames :
        (clast'.op \in {"notify", "message"} /\ OnMessage(f)) =>
            IF ~Falsy(f.notification) /\ f.notification \in DOMAIN events
            THEN /\ clast'.op = "notify"
                 /\ clast'.cb = events[f.notification]
                 /\ clast'.args = (IF f.params.arr THEN f.params.v ELSE <<f.params.v[1]>>)
                 /\ queue' = queue
                 /\ promise' = promise
                 /\ events' = events
            ELSE IF ~Falsy(f.id) /\ IdOf(f.id) \in DOMAIN queue
            THEN LET id == IdOf(f.id) IN
                 /\ promise[id].state = "pending" =>
                        /\ promise'[id].state = "resolved"
                        /\ promise'[id].error = f.error
                        /\ f.error = <<>> => promise'[id].result = f.result
                 /\ DOMAIN queue' = DOMAIN queue \ {id}
                 /\ \A o \in DOMAIN promise \ {id} : promise'[o] = promise[o]
                 /\ \A o \in DOMAIN queue \ {id} : queue'[o] = queue[o]
                 /\ events' = events
            ELSE /\ clast'.op = "message"
                 /\ queue' = queue
                 /\ promise' = promise
                 /\ events' = events
    ]_vars

\* C35: the first id a client issues is 1; every send, subscribe and
\* unsubscribe uses an id greater than every id issued before, settled or not,
\* and puts that id in its request; no other step changes the counter.
C35_FreshIds ==
    [][IF clast'.op \in {"send", "subscribe", "unsubscribe"} /\ clast' # clast
       THEN /\ clast'.id = call_id + 1
            /\ call_id' = clast'.id
            /\ DOMAIN promise = {} => clast'.id = 1
            /\ \A o \in DOMAIN promise \cup DOMAIN queue \cup DOMAIN timers : o < clast'.id
            /\ DOMAIN promise' = DOMAIN promise \cup {clast'.id}
            /\ \A o \in DOMAIN promise : promise'[o] = promise[o]
            /\ cout' # <<>> => cout'[1].id = IdText(clast'.id)
       ELSE call_id' = call_id /\ DOMAIN promise' = DOMAIN promise
    ]_vars

C35_Witness ==
    /\ clast.op = "send"
    /\ clast.id = 2
    /\ call_id = 2
    /\ promise[1].state = "rejected"
    /\ promise[2].state = "pending"
    /\ cout # <<>>
    /\ cout[1].id = IdText(2)

\* C39: unsubscribe removes the callback in the step that sends rpc.off; a
\* callback is invoked only while it is registered, and a name becomes
\* registered again only by subscribe; a notification as the server sends it
\* (without id) for a name with no callback is discarded: no callback is
\* invoked and no pending entry, timer, call or subscription changes.
C39_UnsubscribeBeforeAck ==
    [][/\ clast'.op = "unsubscribe" =>
            \E name \in EventNames :
                /\ name \notin DOMAIN events'
                /\ events' = Without(events, name)
                /\ cout' \in {<<>>, <<Request(IdText(clast'.id), "rpc.off",
                                              ArrayOf(<<name>>))>>}
       /\ clast'.op = "notify" =>
            \E name \in DOMAIN events : events[name] = clast'.cb
       /\ \A name \in EventNames :
            (name \notin DOMAIN events /\ name \in DOMAIN events') =>
                clast'.op = "subscribe"
       /\ \A f \in TickFrames :
            ( /\ clast'.op \in {"notify", "message"}
              /\ f.id = Undefined
              /\ f.notification \notin DOMAIN events
              /\ OnMessage(f) ) =>
                /\ clast'.op = "message"
                /\ clast'.cb = "none"
                /\ promise' = promise
                /\ queue' = queue
                /\ timers' = timers
                /\ listeners' = listeners
                /\ events' = events
    ]_vars

\* C39 witness: a notification was discarded while the call after the
\* acknowledged subscription is pending and no callback is registered
C39_Witness ==
    /\ clast.op = "message"
    /\ clast.id = 0
    /\ "tick" \notin DOMAIN events
    /\ call_id = 2
    /\ promise[1].state = "resolved"
    /\ promise[1].result = EventFlag("tick", "true")
    /\ SubscribePending(2)
    /\ 2 \in listeners

\* C40: the subscriptions change only in subscribe and unsubscribe: a call
\* that ends in an error response, a timeout or a refused write leaves the
\* callback registered; subscribe puts its callback in place of the one
\* registered under the name, and a notification invokes the callback that is
\* registered when it arrives.
C40_NoRollback ==
    [][/\ clast'.op \notin {"subscribe", "unsubscribe"} => events' = events
       /\ clast'.op = "subscribe" =>
            \E name \in EventNames :
                /\ events'[name] = clast'.cb
                /\ DOMAIN events' = DOMAIN events \cup {name}
                /\ Without(events', name) = Without(events, name)
       /\ \A f \in TickFrames :
            ( /\ clast'.op = "notify"
              /\ OnMessage(f) ) =>
                clast'.cb = events[f.notification]
    ]_vars

\* C40 witness: the first rpc.on timed out, the second was answered with an
\* error, and a notification invoked the second callback
C40_Witness ==
    /\ clast.op = "notify"
    /\ clast.cb = "cb2"
    /\ events = ("tick" :> "cb2")
    /\ call_id = 2
    /\ promise[1] = TimeoutRejection
    /\ promise[2].state = "resolved"
    /\ promise[2].error = <<ErrorFor(IdText(2))>>

-----------------------------------------------------------------------------
(* Claims about the server *)

\* the namespace the connection of a socket was admitted into
NsOfSock(sock) == conns[CHOOSE i \in 1..Len(conns) : conns[i].sock = sock].ns

\* an error response as it appears on the wire
ErrorFrame(id, code, message) ==
    [k |-> "obj", id |-> id, result |-> Undefined, notification |-> Undefined,
     params |-> AbsentParams, error |-> <<[code |-> code, message |-> message]>>]

\* C5: an emit addressed to a namespace sends notification frames only to
\* connections admitted into that namespace, also when another namespace
\* declares an event of the same name and has subscribers to it.
C5_NotificationIsolation ==
    slast.op = "emit" =>
        \A i \in 1..Len(sent) :
            /\ sent[i].frame.notification = slast.name
            /\ \A c \in 1..Len(conns) :
                  conns[c].sock = sent[i].sock => conns[c].ns = slast.ns

C5_Witness ==
    /\ slast.op = "emit"
    /\ slast.ns = Root
    /\ Len(sent) >= 1
    /\ Chat \in DOMAIN namespaces
    /\ slast.name \in DOMAIN namespaces[Chat].events
    /\ \E c \in namespaces[Chat].events[slast.name] : sockState[conns[c].sock] = "open"

\* C6: a request is looked up in the method table of its connection's namespace
\* only: a method registered only on another namespace is answered with
\* MethodNotFound and no handler is invoked, a handler that is invoked is the
\* one of the connection's namespace, and rpc.on for an event declared only in
\* another namespace is answered InvalidParams and changes no subscriber set.
C6_Isolation ==
    [][slast'.op = "message" /\ slast'.frame.k = "obj" =>
        LET f == slast'.frame
            sock == slast'.sock
            A == NsOfSock(sock)
            Others == DOMAIN namespaces \ {A}
        IN  /\ ( /\ f.method \notin internalMethods
                 /\ f.method \notin DOMAIN namespaces[A].methods
                 /\ \E B \in Others : f.method \in DOMAIN namespaces[B].methods )
               => /\ sent' = <<[sock |-> sock, ok |-> TRUE,
                                frame |-> ErrorFrame(f.id, -32601, "Method not found")]>>
                  /\ inflight' = inflight
            /\ \A i \in 1..Len(inflight') :
                  i > Len(inflight) =>
                      /\ f.method \in DOMAIN namespaces[A].methods
                      /\ inflight'[i].fn = namespaces[A].methods[f.method]
            /\ ( /\ f.method = "rpc.on"
                 /\ f.params.arr
                 /\ Len(f.params.v) > 0
                 /\ f.params.v[1] \notin DOMAIN namespaces[A].events
                 /\ \E B \in Others : f.params.v[1] \in DOMAIN namespaces[B].events )
               => /\ sent' = <<[sock |-> sock, ok |-> TRUE,
                                frame |-> ErrorFrame(f.id, -32602, "Invalid params")]>>
                  /\ namespaces' = namespaces
    ]_vars

C6_Witness ==
    /\ slast.op = "message"
    /\ slast.frame.k = "obj"
    /\ slast.frame.method = "double"
    /\ NsOfSock(slast.sock) = Chat
    /\ "double" \in DOMAIN namespaces[Root].methods
    /\ sent = <<[sock |-> slast.sock, ok |-> TRUE,
                 frame |-> ErrorFrame(slast.frame.id, -32601, "Method not found")]>>

\* C7: when the handler of a call returns, the server sends a success response
\* with the request's id whose result is the value the handler returned and
\* whose error is absent; the handler was invoked with the request's params and
\* the connection id.
C7_ResultIsReturnValue ==
    slast.op = "return" =>
        /\ Len(sent) = 1
        /\ sent[1].sock = slast.sock
        /\ sent[1].frame =
              [k |-> "obj", id |-> slast.frame.id, result |-> slast.name, error |-> <<>>,
               notification |-> Undefined, params |-> AbsentParams]
        /\ conns[slast.frame.socketId].sock = slast.sock

\* C8: a call to a method that is neither internal nor in the method table of
\* the connection's namespace is answered with the request's id, no result and
\* the error {code: -32601, message: "Method not found"}; no handler is invoked
\* and the registry is unchanged.
C8_MethodNotFound ==
    [][slast'.op = "message" /\ slast'.frame.k = "obj" =>
        LET f == slast'.frame
            sock == slast'.sock
        IN  ( /\ f.method \notin internalMethods
              /\ f.method \notin DOMAIN namespaces[NsOfSock(sock)].methods )
            => /\ sent' = <<[sock |-> sock, ok |-> TRUE,
                             frame |-> ErrorFrame(f.id, -32601, "Method not found")]>>
               /\ inflight' = inflight
               /\ namespaces' = namespaces
    ]_vars

C8_Witness ==
    /\ slast.op = "message"
    /\ slast.frame.k = "obj"
    /\ slast.frame.method = "foo"
    /\ slast.frame.id = "2"
    /\ Len(sent) = 1
    /\ sent[1].frame.id = "2"
    /\ sent[1].frame.result = Undefined
    /\ sent[1].frame.error = <<[code |-> -32601, message |-> "Method not found"]>>
    /\ inflight = <<>>

\* the statement of C9 for a given reading of the reported message
FailureContained(MessageOf(_)) ==
    /\ slast'.op = "throw" =>
          /\ Len(sent') = 1
          /\ sent'[1].sock = slast'.sock
          /\ sent'[1].frame.id = slast'.frame.id
          /\ sent'[1].frame.result = Undefined
          /\ Len(sent'[1].frame.error) = 1
          /\ sent'[1].frame.error[1].code = -32000
          /\ sent'[1].frame.error[1].message = MessageOf(slast'.name)
          /\ namespaces' = namespaces
          /\ conns' = conns
          /\ sockState' = sockState
    /\ slast'.op = "message" =>
          Len(sent') + (Len(inflight') - Len(inflight)) = 1

\* C9 as stated: the reported message is the failure's message.
C9_Original == [][FailureContained(LAMBDA m : m)]_vars

\* C9: when a handler throws or rejects, the server replies with the request's
\* id, no result and an error with code -32000 whose message is the failure's
\* message if that is a non-empty text and "Internal error" otherwise; the
\* admissions and the registry are untouched, and every frame that arrives on
\* an open connection, after a failure as before, is answered or dispatched.
C9_FailureContained ==
    [][FailureContained(LAMBDA m : IF m \in {Undefined, ""} THEN "Internal error" ELSE m)]_vars

C9_Witness ==
    /\ slast.op = "throw"
    /\ slast.name = ""
    /\ sockState[slast.sock] = "open"
    /\ Len(sent) = 1
    /\ sent[1].ok
    /\ sent[1].frame.id = slast.frame.id
    /\ sent[1].frame.error[1].message = "Internal error"

\* C10: when a handler fails with a failure that carries a data property, the
\* error of the response carries that payload as data, next to the code -32000
\* and the failure's message.
C10_ErrorData ==
    (slast.op = "throw" /\ slast.frame.data # Undefined) =>
        /\ Len(sent) = 1
        /\ sent[1].frame.id = slast.frame.id
        /\ sent[1].frame.error =
              <<[code |-> -32000, message |-> slast.name, data |-> slast.frame.data]>>

\* the emit of the last step addressed a declared event
EmitDeclared ==
    /\ slast.op = "emit"
    /\ slast.ns \in DOMAIN namespaces
    /\ slast.name \in DOMAIN namespaces[slast.ns].events

\* C11: after a subscribed connection has closed, an emit of the event makes no
\* send attempt to the departed connection and sends one frame to every
\* subscribed connection that is still open.
C11_DisconnectCleanup ==
    EmitDeclared =>
        /\ \A i \in 1..Len(sent) : sockState[sent[i].sock] # "closed"
        /\ \A c \in namespaces[slast.ns].events[slast.name] :
              sockState[conns[c].sock] = "open" =>
                  \E i \in 1..Len(sent) :
                      /\ sent[i].sock = conns[c].sock
                      /\ sent[i].ok
                      /\ \A j \in 1..Len(sent) : sent[j].sock = sent[i].sock => j = i

C11_Witness ==
    /\ EmitDeclared
    /\ Len(sent) = 1
    /\ sent[1].ok
    /\ \E c \in namespaces[slast.ns].events[slast.name] :
          sockState[conns[c].sock] = "closed"

\* C12: the subscriber set of every declared event of every namespace holds
\* only connection ids that are in the client map of that namespace.
C12_SubscribersAreClients ==
    \A ns \in DOMAIN namespaces :
        \A name \in DOMAIN namespaces[ns].events :
            namespaces[ns].events[name] \subseteq DOMAIN namespaces[ns].clients

\* C13: an emit addressed to an unknown namespace, to an event the namespace
\* does not declare, or to a declared event without subscribers sends no frame
\* and leaves the namespaces, their clients, methods, events and subscriber
\* sets as they were.
C13_EmitIntoVoid ==
    [][slast'.op = "emit" =>
        LET ns == slast'.ns
            name == slast'.name
        IN  ( \/ ns \notin DOMAIN namespaces
              \/ name \notin DOMAIN namespaces[ns].events
              \/ namespaces[ns].events[name] = {} )
            => /\ sent' = <<>>
               /\ namespaces' = namespaces
               /\ conns' = conns
               /\ sockState' = sockState
    ]_vars

C13_Witness ==
    /\ slast.op = "emit"
    /\ slast.ns = Chat
    /\ Chat \notin DOMAIN namespaces
    /\ \E c \in 1..Len(conns) : sockState[conns[c].sock] = "open"
    /\ sent = <<>>

\* the connections an emit of the last step is due to: subscribed to the event
\* and in the client map of the namespace
EmitRecipients ==
    namespaces[slast.ns].events[slast.name] \cap DOMAIN namespaces[slast.ns].clients

\* C14: an emit of a declared event sends exactly one notification frame, with
\* the event name, the emit's params in order and no id, to each connection
\* that is in the event's subscriber set and in the namespace's client map, and
\* to no other connection, also while a method handler is running.
C14_FanOut ==
    EmitDeclared =>
        /\ Len(sent) = Cardinality(EmitRecipients)
        /\ \A c \in EmitRecipients : \E i \in 1..Len(sent) : sent[i].sock = conns[c].sock
        /\ \A i \in 1..Len(sent) :
              /\ \E c \in EmitRecipients : sent[i].sock = conns[c].sock
              /\ sent[i].frame =
                    [k |-> "obj", id |-> Undefined, result |-> Undefined, error |-> <<>>,
                     notification |-> slast.name,
                     params |-> [arr |-> TRUE, v |-> slast.frame.params]]

C14_Witness ==
    /\ EmitDeclared
    /\ Len(inflight) = 1
    /\ inflight[1].socketId \notin namespaces[slast.ns].events[slast.name]
    /\ sockState[conns[inflight[1].socketId].sock] = "open"
    /\ Len(sent) = 1
    /\ sent[1].sock # conns[inflight[1].socketId].sock
    /\ sent[1].frame.params.v = <<"1", "2">>

\* C15: a send of an emit that fails stops nothing: every connection that is
\* subscribed and in the client map is still sent its frame, and the frames to
\* open connections are delivered.
C15_IndependentDelivery ==
    EmitDeclared =>
        \A c \in EmitRecipients :
            \E i \in 1..Len(sent) :
                /\ sent[i].sock = conns[c].sock
                /\ sockState[conns[c].sock] = "open" => sent[i].ok

C15_Witness ==
    /\ EmitDeclared
    /\ Len(sent) = 2
    /\ ~sent[1].ok
    /\ sent[2].ok

\* the connection id of an admitted socket
ConnOf(sock) == CHOOSE i \in 1..Len(conns) : conns[i].sock = sock

\* a success response as it appears on the wire
ResultFrame(id, result) ==
    [k |-> "obj", id |-> id, result |-> result, notification |-> Undefined,
     params |-> AbsentParams, error |-> <<>>]

\* the params of a request name an event the namespace declares
NamesDeclared(f, ns) ==
    /\ f.params.arr
    /\ Len(f.params.v) > 0
    /\ f.params.v[1] \in DOMAIN namespaces[ns].events

\* C16: rpc.on with params that are missing, not a sequence, empty, or whose
\* first element is not an event declared in the connection's namespace is
\* answered InvalidParams with the request's id and changes no subscriber set;
\* otherwise the connection id is added to that event's subscriber set of that
\* namespace, nothing else changes, and the response is {eventName: true}.
C16_Subscribe ==
    [][(slast'.op = "message" /\ slast'.frame.k = "obj" /\ slast'.frame.method = "rpc.on") =>
        LET f == slast'.frame
            sock == slast'.sock
            c == ConnOf(sock)
            A == conns[c].ns
        IN  IF NamesDeclared(f, A)
            THEN /\ namespaces' =
                       [namespaces EXCEPT ![A].events[f.params.v[1]] = @ \cup {c}]
                 /\ sent' = <<[sock |-> sock, ok |-> TRUE,
                              frame |-> ResultFrame(f.id, "{" \o f.params.v[1] \o ":true}")]>>
            ELSE /\ namespaces' = namespaces
                 /\ sent' = <<[sock |-> sock, ok |-> TRUE,
                              frame |-> ErrorFrame(f.id, -32602, "Invalid params")]>>
    ]_vars

C16_Witness ==
    /\ slast.op = "message"
    /\ slast.frame.k = "obj"
    /\ slast.frame.method = "rpc.on"
    /\ slast.frame.params = ArrayOf(<<"tick">>)
    /\ "tick" \in DOMAIN namespaces[Root].events
    /\ namespaces[Root].events["tick"] = {1, 2}
    /\ "ping" \in DOMAIN namespaces[Root].events
    /\ namespaces[Root].events["ping"] = {}
    /\ sent[1].frame.result = "{tick:true}"

\* C17: rpc.off for a declared event removes the requesting connection's id
\* from that event's subscriber set and from nothing else, and answers
\* {eventName: false}, whether or not the connection was subscribed.
C17_Unsubscribe ==
    [][(slast'.op = "message" /\ slast'.frame.k = "obj" /\ slast'.frame.method = "rpc.off"
            /\ NamesDeclared(slast'.frame, conns[ConnOf(slast'.sock)].ns)) =>
        LET f == slast'.frame
            sock == slast'.sock
            c == ConnOf(sock)
            A == conns[c].ns
        IN  /\ namespaces' = [namespaces EXCEPT ![A].events[f.params.v[1]] = @ \ {c}]
            /\ c \notin namespaces[A].events[f.params.v[1]] => namespaces' = namespaces
            /\ sent' = <<[sock |-> sock, ok |-> TRUE,
                          frame |-> ResultFrame(f.id, "{" \o f.params.v[1] \o ":false}")]>>
    ]_vars

C17_Witness ==
    /\ slast.op = "message"
    /\ slast.frame.k = "obj"
    /\ slast.frame.method = "rpc.off"
    /\ slast.frame.params = ArrayOf(<<"tick">>)
    /\ {"tick", "ping"} \subseteq DOMAIN namespaces[Root].events
    /\ conns[ConnOf(slast.sock)].ns = Root
    /\ ConnOf(slast.sock) \in namespaces[Root].events["ping"]
    /\ namespaces[Root].events["tick"] # {}
    /\ ConnOf(slast.sock) \notin namespaces[Root].events["tick"]
    /\ sent[1].frame.result = "{tick:false}"

\* C18: declaring an event name that the namespace already declares fails with
\* 'Event already exists' and changes nothing; declaring a new name, also one
\* that another namespace declares, creates an empty subscriber set for it in
\* that namespace and changes nothing else.
C18_Declare ==
    [][slast'.op \in {"event", "event-exists"} =>
        LET ns == slast'.ns
            name == slast'.name
        IN  IF ns \in DOMAIN namespaces /\ name \in DOMAIN namespaces[ns].events
            THEN /\ slast'.op = "event-exists"
                 /\ namespaces' = namespaces
                 /\ sent' = <<>>
            ELSE /\ slast'.op = "event"
                 /\ DOMAIN namespaces' = DOMAIN namespaces \cup {ns}
                 /\ \A n \in DOMAIN namespaces \ {ns} : namespaces'[n] = namespaces[n]
                 /\ namespaces'[ns].events[name] = {}
                 /\ DOMAIN namespaces'[ns].events \ {name} =
                       IF ns \in DOMAIN namespaces THEN DOMAIN namespaces[ns].events ELSE {}
                 /\ ns \in DOMAIN namespaces =>
                       /\ namespaces'[ns].clients = namespaces[ns].clients
                       /\ namespaces'[ns].methods = namespaces[ns].methods
                       /\ \A e \in DOMAIN namespaces[ns].events :
                             namespaces'[ns].events[e] = namespaces[ns].events[e]
                 /\ ns \notin DOMAIN namespaces =>
                       /\ namespaces'[ns].clients = <<>>
                       /\ namespaces'[ns].methods = <<>>
    ]_vars

C18_Witness ==
    /\ slast.op = "event-exists"
    /\ slast.ns = Root
    /\ namespaces[Root].events[slast.name] # {}
    /\ Chat \in DOMAIN namespaces
    /\ slast.name \in DOMAIN namespaces[Chat].events
    /\ namespaces[Chat].events[slast.name] = {}

\* C19: register sets the handler of the method in the namespace, replacing
\* the one it had, and changes nothing else of the registry; a request
\* dispatched afterwards invokes the handler the table then holds.
C19_Upsert ==
    [][/\ slast'.op = "register" =>
            LET ns == slast'.ns
                method == slast'.name
            IN  /\ DOMAIN namespaces' = DOMAIN namespaces \cup {ns}
                /\ \A n \in DOMAIN namespaces \ {ns} : namespaces'[n] = namespaces[n]
                /\ namespaces'[ns].methods[method] = slast'.fn
                /\ inflight' = inflight
                /\ sent' = <<>>
                /\ ns \in DOMAIN namespaces =>
                      /\ namespaces'[ns].clients = namespaces[ns].clients
                      /\ namespaces'[ns].events = namespaces[ns].events
                      /\ DOMAIN namespaces'[ns].methods =
                            DOMAIN namespaces[ns].methods \cup {method}
                      /\ \A m \in DOMAIN namespaces[ns].methods \ {method} :
                            namespaces'[ns].methods[m] = namespaces[ns].methods[m]
       /\ (slast'.op = "message" /\ Len(inflight') > Len(inflight)) =>
            LET call == inflight'[Len(inflight')]
            IN  /\ call.socketId = ConnOf(slast'.sock)
                /\ call.fn = namespaces[conns[call.socketId].ns].methods[slast'.frame.method]
    ]_vars

C19_Witness ==
    /\ slast.op = "register"
    /\ slast.name = "double"
    /\ slast.fn = "h2"
    /\ namespaces[Root].methods["double"] = "h2"
    /\ Len(inflight) = 1
    /\ inflight[1].fn = "h1"
    /\ "tick" \in DOMAIN namespaces[Root].events
    /\ namespaces[Root].events["tick"] # {}

\* a single leading slash followed only by letters, digits or underscores
WellFormedPath(path) ==
    /\ path # <<>>
    /\ Head(path) = "/"
    /\ \A i \in 2..Len(path) : path[i] # "/" /\ path[i] \in WordChars

\* C20: a connection whose path is not a slash followed by word characters, or
\* names no namespace of the registry, is closed when it is accepted: it gets
\* no connection id, enters no client map, and a frame it sends is neither
\* dispatched nor answered.
C20_Refused ==
    [][/\ ( /\ slast'.op \in {"connection", "reject"}
             /\ (~WellFormedPath(slast'.ns) \/ slast'.ns \notin DOMAIN namespaces) )
            => /\ slast'.op = "reject"
               /\ conns' = conns
               /\ namespaces' = namespaces
               /\ sockState'[slast'.sock] # "open"
               /\ sent' = <<>>
       /\ (slast'.op = "message" /\ \A i \in 1..Len(conns) : conns[i].sock # slast'.sock) =>
            /\ sent' = <<>>
            /\ inflight' = inflight
            /\ namespaces' = namespaces
    ]_vars

C20_Witness ==
    /\ slast.op = "message"
    /\ sockState[slast.sock] = "rejected"
    /\ slast.frame.k = "obj"
    /\ slast.frame.method = "boom"
    /\ Bad \in DOMAIN namespaces
    /\ Chat \notin DOMAIN namespaces
    /\ sent = <<>>
    /\ inflight = <<>>

\* C21: of(path) creates the namespace: a client that connects to the path
\* right after of(path) is admitted into the client map of that namespace and
\* into no other.
C21_OfCreatesNamespace ==
    [][(slast.op = "of" /\ slast'.op \in {"connection", "reject"} /\ slast'.ns = slast.ns) =>
        /\ slast'.op = "connection"
        /\ \E c \in 1..Len(conns') :
              /\ conns'[c].sock = slast'.sock
              /\ c \in DOMAIN namespaces'[slast.ns].clients
              /\ \A n \in DOMAIN namespaces' \ {slast.ns} :
                    c \notin DOMAIN namespaces'[n].clients
    ]_vars

\* the connections admitted into a namespace whose close signal has not come
Admitted(ns) ==
    {c \in 1..Len(conns) : conns[c].ns = ns /\ sockState[conns[c].sock] # "closed"}

C24_ParseError ==
    [][/\ (slast'.op = "message" /\ slast'.frame = Garbage) =>
            /\ sent' = <<[sock |-> slast'.sock, ok |-> TRUE,
                          frame |-> ErrorFrame("null", -32700, "Parse error")]>>
            /\ inflight' = inflight
            /\ namespaces' = namespaces
            /\ conns' = conns
            /\ sockState' = sockState
            /\ sockState'[slast'.sock] = "open"
       /\ ( /\ slast.op = "message"
            /\ slast.frame = Garbage
            /\ slast'.op = "message"
            /\ slast'.sock = slast.sock
            /\ slast'.frame.k = "obj"
            /\ slast'.frame.method = "foo" ) =>
            sent' = <<[sock |-> slast.sock, ok |-> TRUE,
                       frame |-> ErrorFrame(slast'.frame.id, -32601, "Method not found")]>>
    ]_vars

C24_Witness ==
    /\ slast.op = "message"
    /\ slast.frame = Garbage
    /\ sockState[slast.sock] = "open"
    /\ Len(sent) = 1
    /\ sent[1].frame.id = "null"
    /\ sent[1].frame.error = <<[code |-> -32700, message |-> "Parse error"]>>
    /\ Len(inflight) = 1
    /\ conns[inflight[1].socketId].sock = slast.sock

\* a frame that is valid JSON and has no method field
NotAnEnvelope(f) == f.k = "null" \/ (f.k = "obj" /\ f.method = Undefined)

\* C25: a frame that is valid JSON but not a request envelope (the value null,
\* an object without a method field) is answered with Parse error (-32700)
\* with id null.
C25_EnvelopeParseError ==
    [][(slast'.op = "message" /\ NotAnEnvelope(slast'.frame)) =>
        sent' = <<[sock |-> slast'.sock, ok |-> TRUE,
                   frame |-> ErrorFrame("null", -32700, "Parse error")]>>
    ]_vars

\* C31: a request whose method is rpc.on or rpc.off is answered by the
\* internal subscribe or unsubscribe handler, also when the namespace's method
\* table holds a method of that name: no handler is invoked, the method tables
\* are unchanged and the reply is the acknowledgement or InvalidParams.
C31_Reserved ==
    [][( /\ slast'.op = "message"
         /\ slast'.frame.k = "obj"
         /\ slast'.frame.method \in internalMethods ) =>
        LET f == slast'.frame
            sock == slast'.sock
            A == conns[ConnOf(sock)].ns
            flag == IF f.method = "rpc.on" THEN "true" ELSE "false"
        IN  /\ inflight' = inflight
            /\ \A n \in DOMAIN namespaces : namespaces'[n].methods = namespaces[n].methods
            /\ IF NamesDeclared(f, A)
               THEN sent' = <<[sock |-> sock, ok |-> TRUE,
                               frame |-> ResultFrame(f.id, EventFlag(f.params.v[1], flag))]>>
               ELSE sent' = <<[sock |-> sock, ok |-> TRUE,
                               frame |-> ErrorFrame(f.id, -32602, "Invalid params")]>>
    ]_vars

C31_Witness ==
    /\ slast.op = "message"
    /\ slast.frame.k = "obj"
    /\ slast.frame.method = "rpc.on"
    /\ Len(conns) >= 1
    /\ conns[ConnOf(slast.sock)].ns = Root
    /\ "rpc.on" \in DOMAIN namespaces[Root].methods
    /\ "tick" \in DOMAIN namespaces[Root].events
    /\ ConnOf(slast.sock) \in namespaces[Root].events["tick"]
    /\ inflight = <<>>
    /\ Len(sent) = 1
    /\ sent[1].frame.result = EventFlag("tick", "true")

C37_NamespaceLifetime ==
    [][/\ Root \in DOMAIN namespaces /\ Root \in DOMAIN namespaces'
       /\ DOMAIN namespaces \subseteq DOMAIN namespaces'
       /\ \A n \in DOMAIN namespaces :
            /\ DOMAIN namespaces[n].methods \subseteq DOMAIN namespaces'[n].methods
            /\ DOMAIN namespaces[n].events \subseteq DOMAIN namespaces'[n].events
       /\ (slast'.op = "register" /\ slast'.ns \in DOMAIN namespaces) =>
            LET n == slast'.ns IN
            /\ namespaces'[n].clients = namespaces[n].clients
            /\ namespaces'[n].events = namespaces[n].events
            /\ namespaces'[n].methods[slast'.name] = slast'.fn
            /\ Without(namespaces'[n].methods, slast'.name) =
                   Without(namespaces[n].methods, slast'.name)
            /\ Without(namespaces', n) = Without(namespaces, n)
       /\ (slast'.op \in {"event", "event-exists"} /\ slast'.ns \in DOMAIN namespaces) =>
            LET n == slast'.ns IN
            /\ namespaces'[n].clients = namespaces[n].clients
            /\ namespaces'[n].methods = namespaces[n].methods
            /\ slast'.name \in DOMAIN namespaces'[n].events
            /\ Without(namespaces'[n].events, slast'.name) =
                   Without(namespaces[n].events, slast'.name)
            /\ Without(namespaces', n) = Without(namespaces, n)
    ]_vars

C37_Witness ==
    /\ slast.op = "register"
    /\ slast.ns = Root
    /\ slast.fn = "h2"
    /\ namespaces[Root].methods["double"] = "h2"
    /\ DOMAIN namespaces[Root].clients # {}
    /\ "tick" \in DOMAIN namespaces[Root].events
    /\ namespaces[Root].events["tick"] # {}
    /\ Chat \in DOMAIN namespaces

\* C38: under any sequence of 'listening' signals and handleUpgrade calls the
\* connection handler is installed at most once, an admitted connection gets
\* exactly one connection id, and each request frame produces exactly one
\* response: it is answered once in its step or suspends on one handler call.
C38_OneResponse ==
    [][/\ connHandlers' <= 1
       /\ slast'.op = "connection" =>
            Cardinality({c \in 1..Len(conns') : conns'[c].sock = slast'.sock}) = 1
       /\ (slast'.op = "message" /\ slast'.frame.k = "obj") =>
            Len(sent') + (Len(inflight') - Len(inflight)) = 1
    ]_vars

-----------------------------------------------------------------------------
(* Claims about the client connected to the server *)

\* the notification frame an emit of "tick" sends
TickFrame ==
    [k |-> "obj", id |-> Undefined, result |-> Undefined, error |-> <<>>,
     notification |-> "tick", params |-> ArrayOf(<<"1">>)]

\* C4 as stated: every emit made while the client holds an acknowledged
\* subscription invokes the callback: once every frame has been delivered, no
\* such emit is left without its invocation.
C4_Original == (s2c = <<>>) => owed = 0

\* C4: while the client holds an acknowledged subscription every emit of the
\* event sends it exactly one notification frame, and every notification frame
\* that arrives while the callback is in place invokes that callback exactly
\* once with the emitted params; a frame that arrives after the client called
\* unsubscribe invokes nothing.  Once the client has unsubscribed and received
\* the acknowledgement, an emit sends it no frame and no callback is invoked.
C4_RoundTrip ==
    [][/\ (slast'.op = "emit" /\ clientVars' = clientVars /\ Len(s2c') >= Len(s2c)) =>
            /\ ClientSubscribed("tick") => Delivered(sent') = <<TickFrame>>
            /\ ClientUnsubscribed("tick") => Delivered(sent') = <<>>
       /\ (s2c # <<>> /\ s2c' = Tail(s2c)) =>
            /\ (Head(s2c) = TickFrame /\ "tick" \in DOMAIN events) =>
                  /\ clast'.op = "notify"
                  /\ clast'.cb = events["tick"]
                  /\ clast'.args = <<"1">>
            /\ (Head(s2c) = TickFrame /\ "tick" \notin DOMAIN events) =>
                  clast'.op # "notify"
            /\ ClientUnsubscribed("tick") => clast'.op # "notify"
    ]_vars

C4_Witness ==
    /\ ClientUnsubscribed("tick")
    /\ slast.op = "emit"
    /\ sent = <<>>
    /\ s2c = <<>>
    /\ clast.op = "message"
    /\ call_id = 2
    /\ promise[1].result = EventFlag("tick", "true")

====
